---- MODULE Spec2Model ----
(***************************************************************************)
(* Model of the AVShortsDownloader backend: the /api/video-info metadata   *)
(* chain and the /api/download and /api/download-audio stream handlers,    *)
(* as written in backend/server.js and in the second server draft          *)
(* (src/unnamed/part_001).                                                 *)
(*                                                                         *)
(* JavaScript values are encoded as strings: Null is null/undefined, ""    *)
(* the empty string, "#n" the number n, "@true"/"@false" the booleans,     *)
(* anything else a non-empty string.                                       *)
(***************************************************************************)
EXTENDS Integers, Sequences, FiniteSets, TLC

\* ------------------------------------------------------------------ bounds
\* longest format list a backend returns
MaxFormats == 2
\* most data chunks a byte source delivers before it ends
MaxChunks == 2

\* ------------------------------------------------------------- JS values
Null == "<null>"

Falsy(v) == v \in {Null, "", "#0", "@false"}

\* a || b
Or(a, b) == IF Falsy(a) THEN b ELSE a

\* String(v) for the values the handlers convert
JSString(v) ==
  CASE v = "#0" -> "0"
    [] v = "#5" -> "5"
    [] v = "#10" -> "10"
    [] v = "#128" -> "128"
    [] v = "#640" -> "640"
    [] v = Null -> "undefined"
    [] OTHER -> v

\* `${n} kbps`
Kbps(n) == JSString(n) \o " kbps"

\* the two server files under src/
Sources == {"server.js", "part_001"}

\* ------------------------------------------------------------------ URLs
\* A url is a sequence of tokens; the regular expressions of
\* isValidYouTubeUrl match a prefix of it.
Lower(tok) ==
  CASE tok = "HTTPS://" -> "https://"
    [] tok = "YouTube.com/watch?v=" -> "youtube.com/watch?v="
    [] OTHER -> tok

Tail0(s) == IF s = <<>> THEN <<>> ELSE Tail(s)
Head0(s) == IF s = <<>> THEN "" ELSE Head(s)

\* /^(https?:\/\/)?(www\.)?(youtube\.com\/shorts\/|youtu\.be\/)/  and
\* /^(https?:\/\/)?(www\.)?youtube\.com\/watch\?v=/ ; flag i in part_001 only
PatternTest(src, url) ==
  LET fold(t) == IF src = "part_001" THEN Lower(t) ELSE t
      s1 == IF fold(Head0(url)) \in {"http://", "https://"} THEN Tail0(url) ELSE url
      s2 == IF fold(Head0(s1)) = "www." THEN Tail0(s1) ELSE s1
  IN fold(Head0(s2)) \in {"youtube.com/shorts/", "youtu.be/", "youtube.com/watch?v="}

\* a missing url (undefined, null, "") and a url that is not a string
UrlMissing == <<>>
UrlNonString == <<"#5">>

\* !url
UrlFalsy(url) == url = UrlMissing

isValidYouTubeUrl(src, url) ==
  /\ ~UrlFalsy(url)
  /\ url # UrlNonString
  /\ PatternTest(src, url)

\* request bodies the handlers are exercised with
UrlInputs ==
  { UrlMissing, UrlNonString,
    <<"https://", "www.", "youtube.com/watch?v=", "abc123XYZ">>,
    <<"youtube.com/shorts/", "abc123XYZ", "?feature=share">>,
    <<"youtu.be/", "abc123XYZ">>,
    <<"HTTPS://", "www.", "YouTube.com/watch?v=", "abc123XYZ">>,
    <<"https://", "example.com/", "abc123XYZ">>,
    <<"ftp://", "youtube.com/watch?v=", "abc123XYZ">>,
    <<"https://", "www.", "youtube.com/embed/", "abc123XYZ">> }

\* --------------------------------------------------------------- formats
SeqsUpTo(S, n) == UNION { [1..k -> S] : k \in 0..n }

\* String(m).split(';')[0].split('/').pop()
MimeSubtype(m) ==
  CASE m = "video/mp4; codecs" -> "mp4"
    [] m = "video/webm; codecs" -> "webm"
    [] m = "audio/webm; codecs" -> "webm"
    [] OTHER -> JSString(m)

\* /audio/i.test(String(m)) and /video/i.test(String(m))
MimeHasAudio(m) == m \in {"audio/webm; codecs"}
MimeHasVideo(m) == m \in {"video/mp4; codecs", "video/webm; codecs"}

\* String(f.format).split(' ')[0]
FirstWord(f) ==
  CASE f = "137 - 1920x1080" -> "137"
    [] f = "18 - 640x360" -> "18"
    [] OTHER -> JSString(f)

\* formats as ytdl-core reports them
YtdlRawFormats ==
  { [qualityLabel |-> "360p", audioBitrate |-> "#128", container |-> "mp4",
     mimeType |-> "video/mp4; codecs", width |-> "#640", itag |-> "#18"],
    [qualityLabel |-> "720p", audioBitrate |-> Null, container |-> Null,
     mimeType |-> "video/webm; codecs", width |-> "#640", itag |-> "#5"],
    [qualityLabel |-> Null, audioBitrate |-> "#128", container |-> Null,
     mimeType |-> "audio/webm; codecs", width |-> Null, itag |-> "#10"],
    [qualityLabel |-> Null, audioBitrate |-> Null, container |-> Null,
     mimeType |-> Null, width |-> Null, itag |-> Null] }

\* formats as play-dl reports them
PlayRawFormats ==
  { [qualityLabel |-> "360p", quality |-> "medium", container |-> "mp4",
     hasAudio |-> "@true", hasVideo |-> "@true", audioBitrate |-> "#128",
     fps |-> "#5", itag |-> "#18"],
    [qualityLabel |-> Null, quality |-> "tiny", container |-> Null,
     hasAudio |-> Null, hasVideo |-> Null, audioBitrate |-> "#128",
     fps |-> Null, itag |-> "#10"],
    [qualityLabel |-> Null, quality |-> Null, container |-> Null,
     hasAudio |-> "@false", hasVideo |-> "@true", audioBitrate |-> "#128",
     fps |-> Null, itag |-> Null],
    [qualityLabel |-> Null, quality |-> Null, container |-> Null,
     hasAudio |-> Null, hasVideo |-> Null, audioBitrate |-> Null,
     fps |-> Null, itag |-> Null] }

\* entries of the formats array of yt-dlp -J
YtDlpRawFormats ==
  { [format_note |-> Null, qualityLabel |-> Null, abr |-> Null, ext |-> "mp4",
     format |-> Null, acodec |-> "aac", vcodec |-> "avc1", width |-> Null,
     format_id |-> "18", itag |-> Null],
    [format_note |-> "1080p", qualityLabel |-> Null, abr |-> "#0", ext |-> "mp4",
     format |-> "137 - 1920x1080", acodec |-> "none", vcodec |-> "avc1",
     width |-> "#640", format_id |-> "137", itag |-> Null],
    [format_note |-> Null, qualityLabel |-> Null, abr |-> "#128", ext |-> "m4a",
     format |-> Null, acodec |-> "mp4a", vcodec |-> "none", width |-> Null,
     format_id |-> "140", itag |-> Null],
    [format_note |-> Null, qualityLabel |-> Null, abr |-> "#128", ext |-> Null,
     format |-> "18 - 640x360", acodec |-> "none", vcodec |-> Null,
     width |-> "#640", format_id |-> Null, itag |-> "#18"],
    [format_note |-> Null, qualityLabel |-> Null, abr |-> Null, ext |-> Null,
     format |-> Null, acodec |-> Null, vcodec |-> Null, width |-> Null,
     format_id |-> Null, itag |-> Null] }

\* (yi.formats || []).map(f => ...) of the ytdl-core tier
MapYtdlFormat(f) ==
  [quality |-> Or(Or(f.qualityLabel,
                     IF Falsy(f.audioBitrate) THEN Null ELSE Kbps(f.audioBitrate)),
                  Null),
   container |-> Or(Or(f.container,
                       IF Falsy(f.mimeType) THEN Null ELSE MimeSubtype(f.mimeType)),
                    Null),
   hasAudio |-> (~Falsy(f.audioBitrate)) \/ MimeHasAudio(f.mimeType),
   hasVideo |-> (~Falsy(f.qualityLabel)) \/ (~Falsy(f.width)) \/ MimeHasVideo(f.mimeType),
   itag |-> Or(f.itag, Null)]

MapYtdlFormats(fs) == [i \in 1..Len(fs) |-> MapYtdlFormat(fs[i])]

\* (info.formats || []).map(f => ...) of the play-dl tier
MapPlayFormat(f) ==
  [quality |-> Or(Or(f.qualityLabel, f.quality), Null),
   container |-> Or(f.container, Null),
   hasAudio |-> IF f.hasAudio \in {"@true", "@false"}
                THEN f.hasAudio = "@true" ELSE f.audioBitrate # Null,
   hasVideo |-> IF f.hasVideo \in {"@true", "@false"}
                THEN f.hasVideo = "@true"
                ELSE (f.qualityLabel # Null \/ f.fps # Null),
   itag |-> Or(f.itag, Null)]

MapPlayFormats(fs) == [i \in 1..Len(fs) |-> MapPlayFormat(fs[i])]

\* yformats.map(f => ...) of the yt-dlp -J tier
MapYtDlpFormat(f) ==
  [quality |-> Or(Or(Or(f.format_note, f.qualityLabel),
                     IF Falsy(f.abr) THEN Null ELSE Kbps(f.abr)),
                  Null),
   container |-> Or(Or(f.ext, IF Falsy(f.format) THEN Null ELSE FirstWord(f.format)),
                    Null),
   hasAudio |-> (~Falsy(f.acodec) /\ f.acodec # "none") \/ ~Falsy(f.abr),
   hasVideo |-> (~Falsy(f.vcodec) /\ f.vcodec # "none") \/ ~Falsy(f.width),
   itag |-> Or(Or(f.format_id, f.itag), Null)]

MapYtDlpFormats(fs) == [i \in 1..Len(fs) |-> MapYtDlpFormat(fs[i])]

\* ------------------------------------------------- backend results (info)
\* videoDetails of ytdl-core's getInfo
YtdlDetails ==
  { [title |-> Null, author |-> Null, lengthSeconds |-> Null, viewCount |-> Null,
     thumbnail |-> Null, shortDescription |-> Null, uploadDate |-> Null],
    [title |-> "T-ytdl", author |-> "A-ytdl", lengthSeconds |-> "10",
     viewCount |-> "640", thumbnail |-> "thumb-ytdl", shortDescription |-> "D-ytdl",
     uploadDate |-> "2024-01-01"],
    [title |-> "", author |-> Null, lengthSeconds |-> "#0", viewCount |-> "#0",
     thumbnail |-> Null, shortDescription |-> "", uploadDate |-> Null],
    [title |-> "T-ytdl", author |-> Null, lengthSeconds |-> Null, viewCount |-> Null,
     thumbnail |-> Null, shortDescription |-> Null, uploadDate |-> Null],
    [title |-> Null, author |-> "A-ytdl", lengthSeconds |-> "10",
     viewCount |-> "640", thumbnail |-> "thumb-ytdl", shortDescription |-> "D-ytdl",
     uploadDate |-> "2024-01-01"] }

\* video_details of play-dl's video_info
PlayDetails ==
  { [title |-> Null, channel |-> Null, durationInSec |-> Null, views |-> Null,
     thumbnail |-> Null, description |-> Null, uploadDate |-> Null],
    [title |-> "T-play", channel |-> "A-play", durationInSec |-> "#5",
     views |-> "#128", thumbnail |-> "thumb-play", description |-> "D-play",
     uploadDate |-> "2024-02-02"],
    [title |-> "", channel |-> Null, durationInSec |-> "#0", views |-> "#0",
     thumbnail |-> Null, description |-> "", uploadDate |-> Null],
    [title |-> "T-play", channel |-> Null, durationInSec |-> Null, views |-> Null,
     thumbnail |-> Null, description |-> Null, uploadDate |-> Null],
    [title |-> Null, channel |-> "A-play", durationInSec |-> "#5",
     views |-> "#128", thumbnail |-> "thumb-play", description |-> "D-play",
     uploadDate |-> "2024-02-02"] }

\* scalar fields of the object yt-dlp -J prints
YtDlpDetails ==
  { [title |-> Null, uploader |-> Null, channel |-> Null, duration |-> Null,
     view_count |-> Null, thumbnail |-> Null, thumbnailsLast |-> Null,
     description |-> Null, upload_date |-> Null],
    [title |-> "T", uploader |-> "U-ytdlp", channel |-> "C-ytdlp",
     duration |-> "#128", view_count |-> "#640", thumbnail |-> "thumb-ytdlp",
     thumbnailsLast |-> "thumbs-ytdlp", description |-> "D-ytdlp",
     upload_date |-> "20240303"],
    [title |-> "", uploader |-> Null, channel |-> Null, duration |-> "#0",
     view_count |-> "#0", thumbnail |-> Null, thumbnailsLast |-> Null,
     description |-> "", upload_date |-> Null],
    [title |-> "T", uploader |-> Null, channel |-> Null, duration |-> Null,
     view_count |-> Null, thumbnail |-> Null, thumbnailsLast |-> Null,
     description |-> Null, upload_date |-> Null],
    [title |-> Null, uploader |-> Null, channel |-> "C-ytdlp",
     duration |-> "#128", view_count |-> "#640", thumbnail |-> Null,
     thumbnailsLast |-> "thumbs-ytdlp", description |-> "D-ytdlp",
     upload_date |-> "20240303"] }

NoDetails == [title |-> Null]

\* what a backend call of one /api/video-info request yields.
\*   kind "none"   not called
\*   kind "throw"  the library call rejects / the child emits 'error'
\*   kind "info"   a library result: details d, formats f
\*   kind "exit"   the child closed with exit code `code`; stdout is
\*                 out = "empty", "garbage" (not JSON), "null" (the JSON text
\*                 null) or "object" (details d, formats f, where fk tells
\*                 whether parsed.formats is absent, an array or something else)
Result(kind, code, out, d, fk, f) ==
  [kind |-> kind, code |-> code, out |-> out, d |-> d, fk |-> fk, f |-> f]

NoResult == Result("none", 0, "empty", NoDetails, "absent", <<>>)
Throws == Result("throw", 0, "empty", NoDetails, "absent", <<>>)

YtdlResults ==
  {Throws} \cup { Result("info", 0, "empty", d, "array", f) :
                    d \in YtdlDetails, f \in SeqsUpTo(YtdlRawFormats, MaxFormats) }

PlayResults ==
  {Throws} \cup { Result("info", 0, "empty", d, "array", f) :
                    d \in PlayDetails, f \in SeqsUpTo(PlayRawFormats, MaxFormats) }

YtDlpResults ==
  {Throws}
    \cup { Result("exit", c, o, NoDetails, "absent", <<>>) :
             c \in {0, 1}, o \in {"empty", "garbage", "null"} }
    \cup { Result("exit", 0, "object", d, "array", f) :
             d \in YtDlpDetails, f \in SeqsUpTo(YtDlpRawFormats, MaxFormats) }
    \cup { Result("exit", 1, "object", d, "array", <<f>>) :
             d \in {e \in YtDlpDetails : e.uploader # Null}, f \in YtDlpRawFormats }
    \cup { Result("exit", 0, "object", d, fk, <<>>) :
             d \in YtDlpDetails, fk \in {"absent", "notarray"} }

\* ------------------------------------------------------ /api/video-info
VARIABLES
  src,        \* which server file is running
  ytdlLoaded, \* require('ytdl-core') succeeded
  dEp,        \* "download" or "audio": the stream endpoint called
  dUrl,       \* req.body.url of the stream request
  dPc,        \* where its handler stands: "idle", "enter", an await, "returned"
  dTier,      \* the try block the handler is in (position in StreamOrder)
  dRes,       \* the HTTP response
  dStarted,   \* the backend attempts started so far, in order
  dOutcome,   \* the outcome of each of them
  dPipedAt,   \* the attempts whose source was piped into the response
  dChild,     \* the yt-dlp child writing to stdout
  dPlay,      \* the play-dl stream
  dRead,      \* the read stream over the temp file
  dTmp,       \* the temp file of the file fallback
  dTimer,     \* the delayed unlink is scheduled
  crashed,    \* an 'error' event without listener ended the process
  viPc,       \* "idle", the backend the handler awaits, or "done"
  viUrl,      \* req.body.url
  viMeta,     \* title, author, lengthSeconds, viewCount, thumbnail, description, uploadDate
  viFormats,  \* formats
  viRes,      \* the response sent
  viTried,    \* the backends called so far, in order
  viRaw       \* what each backend yielded

viVars == <<viPc, viUrl, viMeta, viFormats, viRes, viTried, viRaw>>

dVars == <<dEp, dUrl, dPc, dTier, dRes, dStarted, dOutcome, dPipedAt, dChild, dPlay,
           dRead, dTmp, dTimer, crashed>>

\* POST /api/download-to-server
VARIABLES
  sPc,        \* "idle", the await the handler stands at, "piped", "done"
  sUrl,       \* req.body.url
  sDir,       \* DOWNLOADS_DIR as ensureDownloadsDir left it
  sRes,       \* the response sent
  sTried,     \* the backends called so far, in order
  sPlay,      \* the play-dl stream piped into the writer
  sWriter,    \* the write stream: "none", "opening", "open", "finished", "errored"
  sFile,      \* the file at filepath: "none", "partial", "complete"
  sWritten    \* chunks written to it

sVars == <<sPc, sUrl, sDir, sRes, sTried, sPlay, sWriter, sFile, sWritten>>

\* concurrent temp-file fallbacks sharing os.tmpdir()
VARIABLES
  tReq,       \* per request: where it stands, the file its child wrote, the file it
              \* picked, how its child exited
  tDir        \* the matching files in os.tmpdir(), oldest first

tVars == <<tReq, tDir>>

\* process start: ensureYtDlp and the startup chain
VARIABLES
  bPc,        \* per ensureYtDlp call: "none", "mkdir", "get", "piping", "chmod", "done"
  bRet,       \* what each call returned
  bExec,      \* the candidate paths that are executable
  bBin,       \* the local bin copy: "absent", "partial", "complete"
  bWriters,   \* the calls holding an open write stream on the local bin copy
  bEnv,       \* process.env.YTDLP_PATH
  bBoot,      \* the startup chain: "unloaded", "dir", "ensure", "listening"
  bHist,      \* per call: the YTDLP_PATH it read, the local bin copy createWriteStream
              \* found, how https.get ended
  bSpawns     \* the yt-dlp spawns of request handlers, and whether ytDlpReady had settled

bVars == <<bPc, bRet, bExec, bBin, bWriters, bEnv, bBoot, bHist, bSpawns>>

\* the downloads directory and the handlers working on it
VARIABLES
  gDir,       \* DOWNLOADS_DIR
  gStatic,    \* the directory express.static was mounted on
  gFiles,     \* the files in each directory
  gSaved,     \* the filenames /api/download-to-server reported as saved, not deleted since
  gOp         \* the last operation on the directory, what the file system did, what it answered

gVars == <<gDir, gStatic, gFiles, gSaved, gOp>>

\* concurrent calls of ensureDownloadsDir on a writable directory
VARIABLES
  pCall,      \* per call: the await it stands at, the marker path it built
  pMarks,     \* the marker files that exist, as <<directory, timestamp>>
  pDir,       \* DOWNLOADS_DIR
  pNow        \* Date.now()

pVars == <<pCall, pMarks, pDir, pNow>>

\* one call of runYtdlpArgs (yt-dlp-run.js)
VARIABLES
  rPc,        \* "idle", "spawned", "exited", "closed", "crashed"
  rOut,       \* out: the chunks of stdout collected
  rErr,       \* err: the number of stderr chunks collected
  rProc,      \* the child: whether 'error' is due, its exit code
  rPromise    \* the promise: "none", "pending", <<"resolved", out>>, <<"rejected">>

rVars == <<rPc, rOut, rErr, rProc, rPromise>>

yVars == <<pVars, rVars>>

\* the state of the handlers an action does not belong to
xVars == <<sVars, tVars, bVars, gVars, yVars>>

vars == <<src, ytdlLoaded, viVars, dVars, xVars>>

Backends == {"ytdl-core", "play-dl", "yt-dlp"}

\* let title = null, author = null, ... ; let formats = []
EmptyMeta ==
  [title |-> Null, author |-> Null, lengthSeconds |-> Null, viewCount |-> Null,
   thumbnail |-> Null, description |-> Null, uploadDate |-> Null]

MetaFields == DOMAIN EmptyMeta

NoResponse ==
  [status |-> 0, error |-> "", meta |-> EmptyMeta, formats |-> <<>>]

\* res.status(code).json({ error })
ErrorResponse(code, msg) ==
  [status |-> code, error |-> msg, meta |-> EmptyMeta, formats |-> <<>>]

\* the response without the title fallback
InfoResponseNoFallback(meta, formats) ==
  [status |-> 200, error |-> "", meta |-> meta, formats |-> formats]

\* res.json({ title: title || 'Unknown title', author, ..., thumbnail: thumbnail || null, ..., formats })
InfoResponse(meta, formats) ==
  [status |-> 200, error |-> "",
   meta |-> [meta EXCEPT !.title = Or(meta.title, "Unknown title"),
                         !.thumbnail = Or(meta.thumbnail, Null)],
   formats |-> formats]

\* the ytdl-core block of backend/server.js
YtdlMergeServer(meta, d) ==
  [title |-> Or(d.title, Null),
   author |-> Or(d.author, Null),
   lengthSeconds |-> JSString(Or(d.lengthSeconds, "")),
   viewCount |-> JSString(Or(d.viewCount, "")),
   thumbnail |-> Or(d.thumbnail, Null),
   description |-> Or(d.shortDescription, Null),
   uploadDate |-> Or(d.uploadDate, Null)]

\* the ytdl-core fallback block of part_001
YtdlMergePart(meta, d) ==
  [title |-> Or(d.title, meta.title),
   author |-> Or(d.author, meta.author),
   lengthSeconds |-> JSString(Or(d.lengthSeconds, "")),
   viewCount |-> JSString(Or(d.viewCount, "")),
   thumbnail |-> Or(d.thumbnail, meta.thumbnail),
   description |-> Or(d.shortDescription, meta.description),
   uploadDate |-> Or(d.uploadDate, meta.uploadDate)]

\* the play-dl fallback block of backend/server.js
PlayMerge(meta, d) ==
  [title |-> Or(Or(meta.title, d.title), Null),
   author |-> Or(Or(meta.author, d.channel), Null),
   lengthSeconds |-> Or(meta.lengthSeconds,
                        IF Falsy(d.durationInSec) THEN Null ELSE JSString(d.durationInSec)),
   viewCount |-> Or(meta.viewCount, IF Falsy(d.views) THEN Null ELSE JSString(d.views)),
   thumbnail |-> Or(Or(meta.thumbnail, d.thumbnail), Null),
   description |-> Or(Or(meta.description, d.description), Null),
   uploadDate |-> Or(Or(meta.uploadDate, d.uploadDate), Null)]

\* the scalar assignments of the yt-dlp -J block of part_001
YtDlpMergePart(meta, d) ==
  [title |-> Or(d.title, meta.title),
   author |-> Or(Or(d.uploader, d.channel), meta.author),
   lengthSeconds |-> IF Falsy(d.duration) THEN meta.lengthSeconds ELSE JSString(d.duration),
   viewCount |-> IF Falsy(d.view_count) THEN meta.viewCount ELSE JSString(d.view_count),
   thumbnail |-> Or(Or(d.thumbnail, d.thumbnailsLast), meta.thumbnail),
   description |-> Or(d.description, meta.description),
   uploadDate |-> Or(d.upload_date, meta.uploadDate)]

\* backend/server.js leaves the scalars alone in its yt-dlp -J block
YtDlpMergeServer(meta, d) == meta

\* the backends of a handler in the order its code reaches them
TierOrder(s) ==
  IF s = "server.js" THEN <<"ytdl-core", "play-dl", "yt-dlp">>
                     ELSE <<"yt-dlp", "ytdl-core">>

\* the yt-dlp block entered without looking at formats
TierGuardSpawnAlways(s, tier, formats, loaded) ==
  IF s = "server.js"
  THEN CASE tier = "ytdl-core" -> loaded
         [] tier = "play-dl" -> formats = <<>>
         [] tier = "yt-dlp" -> TRUE
  ELSE CASE tier = "yt-dlp" -> TRUE
         [] tier = "ytdl-core" -> formats = <<>> /\ loaded

\* the library fallback blocks entered without looking at formats
TierGuardNoEmptyCheck(s, tier, formats, loaded) ==
  IF s = "server.js"
  THEN CASE tier = "ytdl-core" -> loaded
         [] tier = "play-dl" -> TRUE
         [] tier = "yt-dlp" -> formats = <<>>
  ELSE CASE tier = "yt-dlp" -> TRUE
         [] tier = "ytdl-core" -> loaded

\* the condition guarding a backend's block
TierGuard(s, tier, formats, loaded) ==
  IF s = "server.js"
  THEN CASE tier = "ytdl-core" -> loaded
         [] tier = "play-dl" -> formats = <<>>
         [] tier = "yt-dlp" -> formats = <<>>
  ELSE CASE tier = "yt-dlp" -> TRUE
         [] tier = "ytdl-core" -> formats = <<>> /\ loaded

IndexOf(seq, x) == CHOOSE i \in 1..Len(seq) : seq[i] = x

\* the next block after position `from` whose guard holds; 0 when none is left
NextTier(s, from, formats, loaded) ==
  LET later == { i \in (from + 1)..Len(TierOrder(s)) :
                   TierGuard(s, TierOrder(s)[i], formats, loaded) }
  IN IF later = {} THEN 0 ELSE CHOOSE i \in later : \A j \in later : i <= j

\* run the handler on from the end of block `from`: enter the next block whose
\* guard holds, or send the response
Continue(from, meta, formats) ==
  LET n == NextTier(src, from, formats, ytdlLoaded)
  IN /\ viMeta' = meta
     /\ viFormats' = formats
     /\ IF n = 0
        THEN /\ viPc' = "done"
             /\ viRes' = InfoResponse(meta, formats)
             /\ viTried' = viTried
        ELSE /\ viPc' = TierOrder(src)[n]
             /\ viRes' = viRes
             /\ viTried' = Append(viTried, TierOrder(src)[n])

\* app.post("/api/video-info"): validation, then the first backend call
VideoInfoRequest(url) ==
  /\ viPc = "idle"
  /\ dPc = "idle"
  /\ viUrl' = url
  /\ viRaw' = viRaw
  /\ IF UrlFalsy(url)
     THEN /\ viRes' = ErrorResponse(400, "URL is required")
          /\ viPc' = "done"
          /\ UNCHANGED <<viMeta, viFormats, viTried>>
     ELSE IF ~isValidYouTubeUrl(src, url)
     THEN /\ viRes' = ErrorResponse(400, "Invalid YouTube URL")
          /\ viPc' = "done"
          /\ UNCHANGED <<viMeta, viFormats, viTried>>
     ELSE Continue(0, EmptyMeta, <<>>)
  /\ UNCHANGED <<xVars, src, ytdlLoaded, dVars>>

\* await ytdl.getInfo(url) settles
YtdlCoreDone(r) ==
  /\ viPc = "ytdl-core"
  /\ viRaw' = [viRaw EXCEPT !["ytdl-core"] = r]
  /\ IF r.kind = "throw"
     THEN Continue(IndexOf(TierOrder(src), "ytdl-core"), viMeta, viFormats)
     ELSE Continue(IndexOf(TierOrder(src), "ytdl-core"),
                   IF src = "server.js" THEN YtdlMergeServer(viMeta, r.d)
                                        ELSE YtdlMergePart(viMeta, r.d),
                   MapYtdlFormats(r.f))
  /\ UNCHANGED <<xVars, src, ytdlLoaded, viUrl, dVars>>

\* await play.video_info(url) settles
PlayDlDone(r) ==
  /\ viPc = "play-dl"
  /\ viRaw' = [viRaw EXCEPT !["play-dl"] = r]
  /\ IF r.kind = "throw"
     THEN Continue(IndexOf(TierOrder(src), "play-dl"), viMeta, viFormats)
     ELSE Continue(IndexOf(TierOrder(src), "play-dl"),
                   PlayMerge(viMeta, r.d), MapPlayFormats(r.f))
  /\ UNCHANGED <<xVars, src, ytdlLoaded, viUrl, dVars>>

\* the yt-dlp -J child emits 'error' or 'close'
YtDlpDone(r) ==
  LET at == IndexOf(TierOrder(src), "yt-dlp")
      parsedOk == r.kind = "exit" /\ r.code = 0 /\ r.out = "object"
      scalars == IF src = "server.js" THEN YtDlpMergeServer(viMeta, r.d)
                                      ELSE YtDlpMergePart(viMeta, r.d)
  IN /\ viPc = "yt-dlp"
     /\ viRaw' = [viRaw EXCEPT !["yt-dlp"] = r]
     /\ IF ~parsedOk
        THEN Continue(at, viMeta, viFormats)
        ELSE IF r.fk = "notarray"
        THEN Continue(at, scalars, viFormats)
        ELSE Continue(at, scalars, MapYtDlpFormats(r.f))
     /\ UNCHANGED <<xVars, src, ytdlLoaded, viUrl, dVars>>

ViInit ==
  /\ viPc = "idle"
  /\ viUrl = UrlMissing
  /\ viMeta = EmptyMeta
  /\ viFormats = <<>>
  /\ viRes = NoResponse
  /\ viTried = <<>>
  /\ viRaw = [b \in Backends |-> NoResult]

\* ------------------------------------- /api/download, /api/download-audio
Endpoints == {"download", "audio"}

\* the try blocks of a stream handler, in the order they are written
StreamOrder(s, ep) ==
  IF s = "part_001" THEN <<"stdout", "play", "stdout", "file">>
  ELSE IF ep = "download" THEN <<"play", "file", "stdout">>
  ELSE <<"play", "stdout", "file">>

\* the handler checks isValidYouTubeUrl(url) after the !url check
ValidatesUrl(s, ep) == ep = "download"

\* the catch block of try block i holds
\*   if (!res.headersSent) return res.status(500).json(...)
CatchAnswers(s, ep, i) ==
  IF s = "part_001" THEN i = 4
  ELSE IF ep = "download" THEN i \in {2, 3}
  ELSE i = 3

\* the file block sets its headers under if (!res.headersSent)
FileHeadersGuarded(s, ep) == ~(s = "server.js" /\ ep = "download")

\* the read stream of the file block has an 'error' listener
ReadErrorListener(s, ep) == ~(s = "part_001" /\ ep = "audio")

MediaType(ep, tier) ==
  IF ep = "download" THEN "video/mp4"
  ELSE IF tier = "play" THEN "audio/mpeg" ELSE "application/octet-stream"

\* a response nothing was written to
FreshRes ==
  [status |-> 200, headersSent |-> FALSE, ended |-> FALSE, body |-> "none",
   error |-> "", cd |-> "", ct |-> "", bytes |-> 0, sets |-> 0, lateJson |-> FALSE,
   closed |-> FALSE]

\* res.status(code).json({ error: msg }); on a response whose headers are
\* sent this throws ERR_HTTP_HEADERS_SENT, recorded in lateJson
Json(res, code, msg) ==
  IF res.headersSent
  THEN [res EXCEPT !.lateJson = TRUE]
  ELSE [res EXCEPT !.status = code, !.headersSent = TRUE, !.ended = TRUE,
                   !.body = "json", !.error = msg, !.ct = "application/json"]

\* res.setHeader('Content-Disposition', ...); res.setHeader('Content-Type', ...)
SetHeaders(res, who, type) ==
  [res EXCEPT !.cd = who, !.ct = type, !.sets = IF @ < 4 THEN @ + 1 ELSE @]

\* a chunk of the piped source reaches res.write
Write(res) ==
  IF res.ended THEN res
  ELSE [res EXCEPT !.headersSent = TRUE, !.body = "bytes",
                   !.bytes = IF @ < MaxChunks THEN @ + 1 ELSE @]

\* the piped source ends: pipe calls res.end()
End(res) ==
  IF res.ended THEN res ELSE [res EXCEPT !.headersSent = TRUE, !.ended = TRUE]

\* an 'error' listener that only logs
ChildErrorListenerLogs(res) == res

\* child.on('error', err => { if (!res.headersSent) res.status(500).json(...) })
ChildErrorListener(res) ==
  IF ~res.headersSent THEN Json(res, 500, "yt-dlp spawn failed") ELSE res

\* a stream 'error' listener that answers with an error body
PlayErrorListenerAnswers(res) == Json(res, 500, "stream error")

\* streamInfo.stream.on("error", e => console.error(...))
PlayErrorListener(res) == res

\* a block that goes on to the next one after piping
ReturnsAfterPipeNot(tier) == tier # "play"

\* every block ends `source.pipe(res); ...; return;`
ReturnsAfterPipe(tier) == TRUE

NoChild == [state |-> "none", code |-> 0, stdoutOpen |-> FALSE, errorDue |-> FALSE]

Tiers == StreamOrder(src, dEp)

\* leave try block i without an answer: the next block, or the handler's end
NextBlock(i) ==
  IF i < Len(Tiers)
  THEN /\ dTier' = i + 1
       /\ dPc' = "enter"
  ELSE /\ dTier' = i
       /\ dPc' = "returned"

\* the catch block of try block i, reached with response res
Catch(i, res, msg) ==
  IF CatchAnswers(src, dEp, i) /\ ~res.headersSent
  THEN /\ dRes' = Json(res, 500, msg)
       /\ dTier' = i
       /\ dPc' = "returned"
  ELSE /\ dRes' = res
       /\ NextBlock(i)

\* a block that runs on into the next one after piping
AfterPipeGoesOn(i) == NextBlock(i)

\* after source.pipe(res) in block i
AfterPipe(i) ==
  IF ReturnsAfterPipe(Tiers[i])
  THEN /\ dTier' = i
       /\ dPc' = "returned"
  ELSE NextBlock(i)

MarkLast(outcome) == [dOutcome EXCEPT ![Len(dOutcome)] = outcome]

\* app.post("/api/download") and app.post("/api/download-audio") up to the
\* first try block
StreamRequest(ep, url) ==
  /\ dPc = "idle"
  /\ viPc = "idle"
  /\ dEp' = ep
  /\ dUrl' = url
  /\ IF UrlFalsy(url)
     THEN /\ dRes' = Json(dRes, 400, "URL is required")
          /\ dPc' = "returned"
          /\ dTier' = dTier
     ELSE IF ValidatesUrl(src, ep) /\ ~isValidYouTubeUrl(src, url)
     THEN /\ dRes' = Json(dRes, 400, "Invalid YouTube URL")
          /\ dPc' = "returned"
          /\ dTier' = dTier
     ELSE /\ dRes' = dRes
          /\ dPc' = "enter"
          /\ dTier' = 1
  /\ UNCHANGED <<xVars, src, ytdlLoaded, viVars, dStarted, dOutcome, dPipedAt, dChild, dPlay,
                 dRead, dTmp, dTimer, crashed>>

\* how spawn() ends: the child runs; the spawn fails and the child emits
\* 'error' on the next tick (ENOENT, EACCES, ...); or spawn throws (any other errno)
SpawnOutcomes == {"runs", "emits-error", "throws"}

\* a block that spawns yt-dlp with -o - and pipes its stdout to the response
EnterStdout(o) ==
  /\ dPc = "enter"
  /\ ~crashed
  /\ Tiers[dTier] = "stdout"
  /\ dStarted' = Append(dStarted, "stdout")
  /\ IF o = "throws"
     THEN /\ dOutcome' = Append(dOutcome, "failed")
          /\ Catch(dTier, dRes, "Failed to download")
          /\ UNCHANGED <<dChild, dPipedAt>>
     ELSE /\ dOutcome' = Append(dOutcome, IF o = "runs" THEN "piped" ELSE "failed")
          /\ dChild' = [state |-> IF o = "runs" THEN "running" ELSE "failed",
                        code |-> 0, stdoutOpen |-> TRUE, errorDue |-> o # "runs"]
          /\ dRes' = IF dRes.headersSent THEN dRes
                     ELSE SetHeaders(dRes, "stdout", MediaType(dEp, "stdout"))
          /\ dPipedAt' = Append(dPipedAt, dTier)
          /\ AfterPipe(dTier)
  /\ UNCHANGED <<xVars, src, ytdlLoaded, viVars, dEp, dUrl, dPlay, dRead, dTmp, dTimer, crashed>>

\* the play-dl block up to `await play.video_info(url).catch(() => null)`
EnterPlay ==
  /\ dPc = "enter"
  /\ ~crashed
  /\ Tiers[dTier] = "play"
  /\ dStarted' = Append(dStarted, "play")
  /\ dOutcome' = Append(dOutcome, "pending")
  /\ dPc' = "play-info"
  /\ UNCHANGED <<xVars, src, ytdlLoaded, viVars, dEp, dUrl, dTier, dRes, dPipedAt, dChild, dPlay,
                 dRead, dTmp, dTimer, crashed>>

\* what play.video_info gave: nothing (it rejected), details with a title,
\* or details without one (sanitize then throws)
PlayInfoOutcomes == {"null", "titled", "untitled"}

\* video_info settled: the filename, the two setHeader calls, then
\* `await play.stream(...)`
PlayInfoDone(o) ==
  /\ dPc = "play-info"
  /\ ~crashed
  /\ IF o = "untitled" \/ dRes.headersSent
     THEN /\ dOutcome' = MarkLast("failed")
          /\ Catch(dTier, dRes, "Failed to download")
     ELSE /\ dRes' = SetHeaders(dRes, "play", MediaType(dEp, "play"))
          /\ dPc' = "play-stream"
          /\ UNCHANGED <<dTier, dOutcome>>
  /\ UNCHANGED <<xVars, src, ytdlLoaded, viVars, dEp, dUrl, dStarted, dPipedAt, dChild, dPlay,
                 dRead, dTmp, dTimer, crashed>>

\* play.stream settled: with a stream it is piped, without one the block ends
PlayStreamDone(ok) ==
  /\ dPc = "play-stream"
  /\ ~crashed
  /\ dRes' = dRes
  /\ IF ok
     THEN /\ dPlay' = "open"
          /\ dOutcome' = MarkLast("piped")
          /\ dPipedAt' = Append(dPipedAt, dTier)
          /\ AfterPipe(dTier)
     ELSE /\ dOutcome' = MarkLast("failed")
          /\ NextBlock(dTier)
          /\ UNCHANGED <<dPlay, dPipedAt>>
  /\ UNCHANGED <<xVars, src, ytdlLoaded, viVars, dEp, dUrl, dStarted, dChild, dRead, dTmp,
                 dTimer, crashed>>

\* the file block up to `await new Promise(... child.on('close') ...)`
EnterFile(o) ==
  /\ dPc = "enter"
  /\ ~crashed
  /\ Tiers[dTier] = "file"
  /\ dStarted' = Append(dStarted, "file")
  /\ IF o = "throws"
     THEN /\ dOutcome' = Append(dOutcome, "failed")
          /\ Catch(dTier, dRes, "Failed to download")
     ELSE /\ dOutcome' = Append(dOutcome, "pending")
          /\ dPc' = IF o = "runs" THEN "file-wait" ELSE "file-error"
          /\ UNCHANGED <<dRes, dTier>>
  /\ UNCHANGED <<xVars, src, ytdlLoaded, viVars, dEp, dUrl, dPipedAt, dChild, dPlay, dRead, dTmp,
                 dTimer, crashed>>

\* how the awaited child ends: 'error' (the promise rejects), a non-zero exit
\* code, exit 0 with the file in the temp directory, exit 0 with no matching file
FileOutcomes == {"error", "nonzero", "file", "nofile"}

\* the promise settles: pick the newest file, set the headers, pipe the read stream
FileChildDone(o) ==
  /\ dPc = IF o = "error" THEN "file-error" ELSE "file-wait"
  /\ ~crashed
  /\ IF o # "file"
     THEN /\ dOutcome' = MarkLast("failed")
          /\ Catch(dTier, dRes, "Failed to download")
          /\ UNCHANGED <<dRead, dTmp, dPipedAt>>
     ELSE IF dRes.headersSent /\ ~FileHeadersGuarded(src, dEp)
     THEN /\ dOutcome' = MarkLast("failed")
          /\ dTmp' = "present"
          /\ Catch(dTier, dRes, "Failed to download")
          /\ UNCHANGED <<dRead, dPipedAt>>
     ELSE /\ dOutcome' = MarkLast("piped")
          /\ dTmp' = "present"
          /\ dRes' = IF dRes.headersSent THEN dRes
                     ELSE SetHeaders(dRes, "file", MediaType(dEp, "file"))
          /\ dRead' = "open"
          /\ dPipedAt' = Append(dPipedAt, dTier)
          /\ AfterPipe(dTier)
  /\ UNCHANGED <<xVars, src, ytdlLoaded, viVars, dEp, dUrl, dStarted, dChild, dPlay, dTimer,
                 crashed>>

\* events are delivered between the handler's awaits, never inside its
\* synchronous code
Delivering == dPc # "enter" /\ ~crashed

\* the child of a failed spawn emits 'error'
ChildErrorEvent ==
  /\ Delivering
  /\ dChild.errorDue
  /\ dChild' = [dChild EXCEPT !.errorDue = FALSE]
  /\ dRes' = ChildErrorListener(dRes)
  /\ UNCHANGED <<xVars, src, ytdlLoaded, viVars, dEp, dUrl, dPc, dTier, dStarted, dOutcome,
                 dPipedAt, dPlay, dRead, dTmp, dTimer, crashed>>

\* the running child writes a chunk to stdout
ChildStdoutData ==
  /\ Delivering
  /\ dChild.state \in {"running", "exited"}
  /\ dChild.stdoutOpen
  /\ ~dRes.closed
  /\ dRes.bytes < MaxChunks
  /\ dRes' = Write(dRes)
  /\ UNCHANGED <<xVars, src, ytdlLoaded, viVars, dEp, dUrl, dPc, dTier, dStarted, dOutcome,
                 dPipedAt, dChild, dPlay, dRead, dTmp, dTimer, crashed>>

\* the child process exits with a code
ChildExit(code) ==
  /\ Delivering
  /\ dChild.state = "running"
  /\ dChild' = [dChild EXCEPT !.state = "exited", !.code = code]
  /\ dOutcome' = IF code = 0 THEN dOutcome
                 ELSE [dOutcome EXCEPT ![dPipedAt[Len(dPipedAt)]] =
                         IF dRes.bytes = 0 THEN "failed" ELSE "broken"]
  /\ UNCHANGED <<xVars, src, ytdlLoaded, viVars, dEp, dUrl, dPc, dTier, dRes, dStarted,
                 dPipedAt, dPlay, dRead, dTmp, dTimer, crashed>>

\* the child's stdout ends (after 'error' when the spawn failed): pipe ends
\* the response
ChildStdoutEnd ==
  /\ Delivering
  /\ dChild.stdoutOpen
  /\ dChild.state \in {"failed", "exited"}
  /\ ~dChild.errorDue
  /\ ~dRes.closed
  /\ dChild' = [dChild EXCEPT !.stdoutOpen = FALSE]
  /\ dRes' = End(dRes)
  /\ UNCHANGED <<xVars, src, ytdlLoaded, viVars, dEp, dUrl, dPc, dTier, dStarted, dOutcome,
                 dPipedAt, dPlay, dRead, dTmp, dTimer, crashed>>

\* the play-dl stream delivers a chunk
PlayData ==
  /\ Delivering
  /\ dPlay = "open"
  /\ dRes.bytes < MaxChunks
  /\ dRes' = Write(dRes)
  /\ UNCHANGED <<xVars, src, ytdlLoaded, viVars, dEp, dUrl, dPc, dTier, dStarted, dOutcome,
                 dPipedAt, dChild, dPlay, dRead, dTmp, dTimer, crashed>>

\* the play-dl stream ends: pipe ends the response
PlayEnd ==
  /\ Delivering
  /\ dPlay = "open"
  /\ dPlay' = "ended"
  /\ dRes' = End(dRes)
  /\ UNCHANGED <<xVars, src, ytdlLoaded, viVars, dEp, dUrl, dPc, dTier, dStarted, dOutcome,
                 dPipedAt, dChild, dRead, dTmp, dTimer, crashed>>

\* the play-dl stream emits 'error': the listener runs, pipe unpipes
PlayError ==
  /\ Delivering
  /\ dPlay = "open"
  /\ dPlay' = "errored"
  /\ dRes' = PlayErrorListener(dRes)
  /\ dOutcome' = [dOutcome EXCEPT ![dPipedAt[Len(dPipedAt)]] =
                    IF dRes.bytes = 0 THEN "failed" ELSE "broken"]
  /\ UNCHANGED <<xVars, src, ytdlLoaded, viVars, dEp, dUrl, dPc, dTier, dStarted,
                 dPipedAt, dChild, dRead, dTmp, dTimer, crashed>>

\* the read stream over the temp file delivers a chunk
ReadData ==
  /\ Delivering
  /\ dRead = "open"
  /\ dRes.bytes < MaxChunks
  /\ dRes' = Write(dRes)
  /\ UNCHANGED <<xVars, src, ytdlLoaded, viVars, dEp, dUrl, dPc, dTier, dStarted, dOutcome,
                 dPipedAt, dChild, dPlay, dRead, dTmp, dTimer, crashed>>

\* the read stream ends: pipe ends the response
ReadEnd ==
  /\ Delivering
  /\ dRead = "open"
  /\ dRead' = "ended"
  /\ dRes' = End(dRes)
  /\ UNCHANGED <<xVars, src, ytdlLoaded, viVars, dEp, dUrl, dPc, dTier, dStarted, dOutcome,
                 dPipedAt, dChild, dPlay, dTmp, dTimer, crashed>>

\* the read stream emits 'error': unlinkSync in the listener, or no listener
ReadError ==
  /\ Delivering
  /\ dRead = "open"
  /\ dRead' = "errored"
  /\ dOutcome' = [dOutcome EXCEPT ![dPipedAt[Len(dPipedAt)]] =
                    IF dRes.bytes = 0 THEN "failed" ELSE "broken"]
  /\ IF ReadErrorListener(src, dEp)
     THEN /\ dTmp' = "unlinked"
          /\ crashed' = crashed
     ELSE /\ dTmp' = dTmp
          /\ crashed' = TRUE
  /\ UNCHANGED <<xVars, src, ytdlLoaded, viVars, dEp, dUrl, dPc, dTier, dRes, dStarted,
                 dPipedAt, dChild, dPlay, dTimer>>

\* the read stream emits 'close': setTimeout(unlink, 2000)
ReadClose ==
  /\ Delivering
  /\ dRead \in {"ended", "errored"}
  /\ dRead' = "closed"
  /\ dTimer' = TRUE
  /\ UNCHANGED <<xVars, src, ytdlLoaded, viVars, dEp, dUrl, dPc, dTier, dRes, dStarted, dOutcome,
                 dPipedAt, dChild, dPlay, dTmp, crashed>>

\* the timer fires: fs.unlink(downloaded, ...)
UnlinkTimer ==
  /\ Delivering
  /\ dTimer
  /\ dTimer' = FALSE
  /\ dTmp' = "unlinked"
  /\ UNCHANGED <<xVars, src, ytdlLoaded, viVars, dEp, dUrl, dPc, dTier, dRes, dStarted, dOutcome,
                 dPipedAt, dChild, dPlay, dRead, crashed>>

\* the client goes away while a source is piped into the response: res emits
\* 'close' and pipe() unpipes. No handler listens for 'close' on req or res and
\* none kills the child or destroys a stream, so the source is left paused:
\* a play-dl or file stream emits nothing more; the child goes on only if what
\* it still has to write fits the stdout pipe (fits), otherwise its write
\* blocks
ClientClose(fits) ==
  /\ Delivering
  /\ dPipedAt # <<>>
  /\ ~dRes.ended
  /\ ~dRes.closed
  /\ dChild.state = "running" \/ dPlay = "open" \/ dRead = "open"
  /\ dRes' = [dRes EXCEPT !.closed = TRUE]
  /\ dChild' = IF dChild.state = "running" /\ ~fits
               THEN [dChild EXCEPT !.state = "blocked"]
               ELSE dChild
  /\ dPlay' = IF dPlay = "open" THEN "paused" ELSE dPlay
  /\ dRead' = IF dRead = "open" THEN "paused" ELSE dRead
  /\ UNCHANGED <<xVars, src, ytdlLoaded, viVars, dEp, dUrl, dPc, dTier, dStarted, dOutcome,
                 dPipedAt, dTmp, dTimer, crashed>>

DInit ==
  /\ dEp = "download"
  /\ dUrl = UrlMissing
  /\ dPc = "idle"
  /\ dTier = 0
  /\ dRes = FreshRes
  /\ dStarted = <<>>
  /\ dOutcome = <<>>
  /\ dPipedAt = <<>>
  /\ dChild = NoChild
  /\ dPlay = "none"
  /\ dRead = "none"
  /\ dTmp = "none"
  /\ dTimer = FALSE
  /\ crashed = FALSE

\* ------------------------------------------------ /api/download-to-server
NoSaveResponse == [status |-> 0, body |-> "none", error |-> ""]

\* res.status(code).json({ error: msg })
SaveError(code, msg) == [status |-> code, body |-> "json", error |-> msg]

\* res.json({ success: true, filename, ... })
SaveSuccess == [status |-> 200, body |-> "success", error |-> ""]

\* a response that answers at once after the pipe
AfterPipeToWriterAnswers(res) == SaveSuccess

\* streamInfo.stream.pipe(writer): nothing is sent until a writer event
AfterPipeToWriter(res) == res

\* the 'error' listener of the writer removes the file
WriterErrorUnlinks(s) == s = "part_001"

\* the outer catch: res.status(500).json({ error: "Failed to download video" })
SaveCatch ==
  /\ sRes' = SaveError(500, "Failed to download video")
  /\ sPc' = "done"

\* app.post("/api/download-to-server") up to its first await
SaveRequest(url) ==
  /\ sPc = "idle"
  /\ sUrl' = url
  /\ IF UrlFalsy(url)
     THEN /\ sRes' = SaveError(400, "URL is required")
          /\ sPc' = "done"
          /\ sTried' = sTried
     ELSE /\ sRes' = sRes
          /\ sPc' = IF src = "part_001" THEN "dir" ELSE "info"
          /\ sTried' = IF src = "part_001" THEN sTried ELSE Append(sTried, "play")
  /\ UNCHANGED <<yVars, gVars, tVars, bVars, src, ytdlLoaded, viVars, dVars, sDir, sPlay, sWriter, sFile, sWritten>>

\* await ensureDownloadsDir() settles: the configured directory, or os.tmpdir()
SaveDirDone(dir) ==
  /\ sPc = "dir"
  /\ sDir' = dir
  /\ sPc' = "info"
  /\ sTried' = Append(sTried, "play")
  /\ UNCHANGED <<yVars, gVars, tVars, bVars, src, ytdlLoaded, viVars, dVars, sUrl, sRes, sPlay, sWriter, sFile, sWritten>>

\* play.video_info settled; the title and filepath, then await play.stream
SaveInfoDone(o) ==
  /\ sPc = "info"
  /\ IF \/ src = "server.js" /\ o = "null"
        \/ src = "part_001" /\ o = "untitled"
     THEN SaveCatch
     ELSE /\ sPc' = "stream"
          /\ sRes' = sRes
  /\ UNCHANGED <<yVars, gVars, tVars, bVars, src, ytdlLoaded, viVars, dVars, sUrl, sDir, sTried, sPlay, sWriter, sFile,
                 sWritten>>

\* play.stream settled: without a stream the handler answers 500, with one it
\* creates the writer and pipes
SaveStreamDone(ok) ==
  /\ sPc = "stream"
  /\ IF ok
     THEN /\ sPlay' = "open"
          /\ sWriter' = "opening"
          /\ sRes' = AfterPipeToWriter(sRes)
          /\ sPc' = "piped"
     ELSE /\ sRes' = SaveError(500, IF src = "server.js"
                                    THEN "Failed to get stream from play-dl"
                                    ELSE "Failed to download video")
          /\ sPc' = "done"
          /\ UNCHANGED <<sPlay, sWriter>>
  /\ UNCHANGED <<yVars, gVars, tVars, bVars, src, ytdlLoaded, viVars, dVars, sUrl, sDir, sTried, sFile, sWritten>>

\* a source 'error' has no listener: the process is gone
SaveRunning == sPlay # "errored"

\* the writer opened filepath: the file exists
WriterOpen ==
  /\ SaveRunning
  /\ sWriter = "opening"
  /\ sWriter' = "open"
  /\ sFile' = "partial"
  /\ UNCHANGED <<yVars, gVars, tVars, bVars, src, ytdlLoaded, viVars, dVars, sPc, sUrl, sDir, sRes, sTried, sPlay,
                 sWritten>>

\* a chunk of the source is written
SaveData ==
  /\ SaveRunning
  /\ sWriter = "open"
  /\ sPlay = "open"
  /\ sWritten < MaxChunks
  /\ sWritten' = sWritten + 1
  /\ UNCHANGED <<yVars, gVars, tVars, bVars, src, ytdlLoaded, viVars, dVars, sPc, sUrl, sDir, sRes, sTried, sPlay,
                 sWriter, sFile>>

\* the source ends: pipe calls writer.end()
SaveSourceEnd ==
  /\ sPlay = "open"
  /\ sPlay' = "ended"
  /\ UNCHANGED <<yVars, gVars, tVars, bVars, src, ytdlLoaded, viVars, dVars, sPc, sUrl, sDir, sRes, sTried, sWriter,
                 sFile, sWritten>>

\* the source emits 'error'
SaveSourceError ==
  /\ sPlay = "open"
  /\ sPlay' = "errored"
  /\ UNCHANGED <<yVars, gVars, tVars, bVars, src, ytdlLoaded, viVars, dVars, sPc, sUrl, sDir, sRes, sTried, sWriter,
                 sFile, sWritten>>

\* writer.on('finish'): everything was flushed after end()
WriterFinish ==
  /\ SaveRunning
  /\ sWriter = "open"
  /\ sPlay = "ended"
  /\ sWriter' = "finished"
  /\ sFile' = "complete"
  /\ sRes' = SaveSuccess
  /\ sPc' = "done"
  /\ UNCHANGED <<yVars, gVars, tVars, bVars, src, ytdlLoaded, viVars, dVars, sUrl, sDir, sTried, sPlay, sWritten>>

\* writer.on('error'): opening or writing failed
WriterError ==
  /\ SaveRunning
  /\ sWriter \in {"opening", "open"}
  /\ sWriter' = "errored"
  /\ sFile' = IF WriterErrorUnlinks(src) THEN "none" ELSE sFile
  /\ sRes' = SaveError(500, "Failed to save video")
  /\ sPc' = "done"
  /\ UNCHANGED <<yVars, gVars, tVars, bVars, src, ytdlLoaded, viVars, dVars, sUrl, sDir, sTried, sPlay, sWritten>>

\* ------------------------------------- temp-file fallbacks run concurrently
\* requests in the file block at the same time
MaxRequests == 2

Requests == 1..MaxRequests

NoFile == 0

\* seq without the file f
Without(seq, f) ==
  LET keep(x) == x # f
  IN SelectSeq(seq, keep)

InDir(f) == \E i \in 1..Len(tDir) : tDir[i] = f

\* candidates.sort((a, b) => b.t - a.t)[0]: the newest matching file
Newest == IF tDir = <<>> THEN NoFile ELSE tDir[Len(tDir)]

\* the file a request streams: the newest one carrying the prefix
PickedFile(r) == Newest

\* the file block up to the awaited promise: yt-dlp is spawned with -o <pattern>
TmpRequest(r) ==
  /\ tReq[r].pc = "idle"
  /\ tReq' = [tReq EXCEPT ![r].pc = "wait"]
  /\ UNCHANGED <<yVars, gVars, src, ytdlLoaded, viVars, dVars, sVars, bVars, tDir>>

\* the child wrote its output file and exited with code 0
TmpChildExit0(r) ==
  /\ tReq[r].pc = "wait"
  /\ tDir' = Append(tDir, r)
  /\ tReq' = [tReq EXCEPT ![r].pc = "exited", ![r].own = r, ![r].exit = "zero"]
  /\ UNCHANGED <<yVars, gVars, src, ytdlLoaded, viVars, dVars, sVars, bVars>>

\* a block that goes on to the newest file whatever the exit code was
TmpChildFailsPicks(r) ==
  /\ tReq[r].pc = "wait"
  /\ IF Newest = NoFile
     THEN tReq' = [tReq EXCEPT ![r].pc = "failed", ![r].exit = "nonzero"]
     ELSE tReq' = [tReq EXCEPT ![r].pc = "serving", ![r].exit = "nonzero", ![r].pick = Newest]
  /\ UNCHANGED <<yVars, gVars, src, ytdlLoaded, viVars, dVars, sVars, bVars, tDir>>

\* the child emitted 'error' or exited non-zero: `if (exitCode !== 0) throw`,
\* the catch block
TmpChildFails(r) ==
  /\ tReq[r].pc = "wait"
  /\ tReq' = [tReq EXCEPT ![r].pc = "failed", ![r].exit = "nonzero"]
  /\ UNCHANGED <<yVars, gVars, src, ytdlLoaded, viVars, dVars, sVars, bVars, tDir>>

\* the handler resumes after the await: readdirSync, the newest candidate,
\* createReadStream(...).pipe(res)
TmpResume(r) ==
  /\ tReq[r].pc = "exited"
  /\ IF PickedFile(r) = NoFile
     THEN tReq' = [tReq EXCEPT ![r].pc = "failed"]
     ELSE tReq' = [tReq EXCEPT ![r].pc = "serving", ![r].pick = PickedFile(r)]
  /\ UNCHANGED <<yVars, gVars, src, ytdlLoaded, viVars, dVars, sVars, bVars, tDir>>

\* the read stream emits 'error': unlinkSync in the listener, then 'close'
TmpStreamError(r) ==
  /\ tReq[r].pc = "serving"
  /\ tDir' = Without(tDir, tReq[r].pick)
  /\ tReq' = [tReq EXCEPT ![r].pc = "closed"]
  /\ UNCHANGED <<yVars, gVars, src, ytdlLoaded, viVars, dVars, sVars, bVars>>

\* the read stream ends and emits 'close': setTimeout(unlink, 2000)
TmpStreamClose(r) ==
  /\ tReq[r].pc = "serving"
  /\ tReq' = [tReq EXCEPT ![r].pc = "closed"]
  /\ UNCHANGED <<yVars, gVars, src, ytdlLoaded, viVars, dVars, sVars, bVars, tDir>>

\* the timer fires: fs.unlink of the picked file (an error is ignored)
TmpUnlink(r) ==
  /\ tReq[r].pc = "closed"
  /\ tDir' = Without(tDir, tReq[r].pick)
  /\ tReq' = [tReq EXCEPT ![r].pc = "done"]
  /\ UNCHANGED <<yVars, gVars, src, ytdlLoaded, viVars, dVars, sVars, bVars>>

TInit ==
  /\ tReq = [r \in Requests |->
              [pc |-> "idle", own |-> NoFile, pick |-> NoFile, exit |-> "none"]]
  /\ tDir = <<>>

\* ------------------------------------------------ process start (part_001)
\* the two places ensureYtDlp is called from: 1 the module body
\* (ytDlpReady = ensureYtDlp()), 2 the startup chain
Calls == {1, 2}

\* paths: "cfg" a configured YTDLP_PATH, "usr" /usr/local/bin/yt-dlp, "local"
\* the copy in ./bin
Paths == {"cfg", "usr", "local"}

\* [process.env.YTDLP_PATH, '/usr/local/bin/yt-dlp', LOCAL_YTDLP].filter(Boolean)
Candidates(env) == IF env = Null THEN <<"usr", "local">> ELSE <<env, "usr", "local">>

\* a search that keeps the last candidate isExecutable accepts
FirstExecutableLast(env, exec) ==
  LET cs == Candidates(env)
      hits == { i \in 1..Len(cs) : cs[i] \in exec }
  IN IF hits = {} THEN Null ELSE cs[CHOOSE i \in hits : \A j \in hits : i >= j]

\* the first candidate isExecutable accepts, Null when there is none
FirstExecutable(env, exec) ==
  LET cs == Candidates(env)
      hits == { i \in 1..Len(cs) : cs[i] \in exec }
  IN IF hits = {} THEN Null ELSE cs[CHOOSE i \in hits : \A j \in hits : i <= j]

\* ensureYtDlp up to its first await, as call c, with YTDLP_PATH = env
EnsureSync(c, env, exec) ==
  LET hit == FirstExecutable(env, exec)
  IN /\ bHist' = [bHist EXCEPT ![c].env = env]
     /\ IF hit # Null
        THEN /\ bPc' = [bPc EXCEPT ![c] = "done"]
             /\ bRet' = [bRet EXCEPT ![c] = hit]
             /\ bEnv' = hit
        ELSE /\ bPc' = [bPc EXCEPT ![c] = "mkdir"]
             /\ bRet' = bRet
             /\ bEnv' = env

\* the module body runs: ytDlpReady = ensureYtDlp(), and at its end
\* ensureDownloadsDir() is called
ModuleLoad(env, exec, bin) ==
  /\ bBoot = "unloaded"
  /\ src = "part_001"
  /\ "local" \in exec => bin = "complete"
  /\ env = Null \/ env = "cfg"
  /\ bExec' = exec
  /\ bBin' = bin
  /\ EnsureSync(1, env, exec)
  /\ bBoot' = "dir"
  /\ UNCHANGED <<yVars, gVars, src, ytdlLoaded, viVars, dVars, sVars, tVars, bWriters, bSpawns>>

\* ensureDownloadsDir() resolved: the chain calls ensureYtDlp again
DirEnsured ==
  /\ bBoot = "dir"
  /\ EnsureSync(2, bEnv, bExec)
  /\ bBoot' = "ensure"
  /\ UNCHANGED <<yVars, gVars, src, ytdlLoaded, viVars, dVars, sVars, tVars, bExec, bBin, bWriters,
                 bSpawns>>

\* await fs.mkdir(LOCAL_BIN_DIR) settled; createWriteStream(LOCAL_YTDLP) and
\* https.get follow
EnsureMkdir(c, ok) ==
  /\ bPc[c] = "mkdir"
  /\ IF ok
     THEN /\ bPc' = [bPc EXCEPT ![c] = "get"]
          /\ bBin' = "partial"
          /\ bWriters' = bWriters \cup {c}
          /\ bHist' = [bHist EXCEPT ![c].found = bBin]
     ELSE /\ bPc' = [bPc EXCEPT ![c] = "done"]
          /\ UNCHANGED <<bBin, bWriters, bHist>>
  /\ UNCHANGED <<yVars, gVars, src, ytdlLoaded, viVars, dVars, sVars, tVars, bRet, bExec, bEnv, bBoot,
                 bSpawns>>

\* how https.get ends: a response with status 200, a response with another
\* status, or 'error' on the request
ResponseOutcomes == {"200", "non-200", "error"}

\* the response arrives (or the request fails): status 200 pipes into the file,
\* anything else rejects into the catch, which returns null
EnsureResponse(c, o) ==
  /\ bPc[c] = "get"
  /\ bPc' = [bPc EXCEPT ![c] = IF o = "200" THEN "piping" ELSE "done"]
  /\ bHist' = [bHist EXCEPT ![c].status = o]
  /\ UNCHANGED <<yVars, gVars, src, ytdlLoaded, viVars, dVars, sVars, tVars, bRet, bExec, bBin, bWriters,
                 bEnv, bBoot, bSpawns>>

\* file.on('finish'): file.close(), resolve()
EnsureFinish(c) ==
  /\ bPc[c] = "piping"
  /\ bPc' = [bPc EXCEPT ![c] = "chmod"]
  /\ bWriters' = bWriters \ {c}
  /\ bBin' = IF bWriters \ {c} = {} THEN "complete" ELSE "partial"
  /\ UNCHANGED <<yVars, gVars, src, ytdlLoaded, viVars, dVars, sVars, tVars, bRet, bExec, bEnv, bBoot,
                 bHist, bSpawns>>

\* the chmod attempts ran; process.env.YTDLP_PATH = LOCAL_YTDLP; return LOCAL_YTDLP
EnsureChmod(c, ok) ==
  /\ bPc[c] = "chmod"
  /\ bPc' = [bPc EXCEPT ![c] = "done"]
  /\ bExec' = IF ok THEN bExec \cup {"local"} ELSE bExec
  /\ bEnv' = "local"
  /\ bRet' = [bRet EXCEPT ![c] = "local"]
  /\ UNCHANGED <<yVars, gVars, src, ytdlLoaded, viVars, dVars, sVars, tVars, bBin, bWriters, bBoot,
                 bHist, bSpawns>>

\* await ensureYtDlp() of the chain settled: app.listen
BootListen ==
  /\ bBoot = "ensure"
  /\ bPc[2] = "done"
  /\ bBoot' = "listening"
  /\ UNCHANGED <<yVars, gVars, src, ytdlLoaded, viVars, dVars, sVars, tVars, bPc, bRet, bExec, bBin,
                 bWriters, bEnv, bHist, bSpawns>>

\* the handlers that spawn yt-dlp
SpawningHandlers == {"video-info", "download", "audio"}

\* /api/video-info starts with `if (ytDlpReady) await ytDlpReady;`, the two
\* stream handlers go straight to spawn
AwaitsReady(ep) == ep = "video-info"

\* a request reaches the first spawn(ytDlpPath, ...) of its handler
HandlerSpawn(ep) ==
  /\ bBoot = "listening"
  /\ AwaitsReady(ep) => bPc[1] = "done"
  /\ bSpawns' = bSpawns \cup {[ep |-> ep, ready |-> bPc[1] = "done"]}
  /\ UNCHANGED <<yVars, gVars, src, ytdlLoaded, viVars, dVars, sVars, tVars, bPc, bRet, bExec, bBin,
                 bWriters, bEnv, bBoot, bHist>>

BInit ==
  /\ bPc = [c \in Calls |-> "none"]
  /\ bRet = [c \in Calls |-> Null]
  /\ bExec = {}
  /\ bBin = "absent"
  /\ bWriters = {}
  /\ bEnv = Null
  /\ bBoot = "unloaded"
  /\ bHist = [c \in Calls |-> [env |-> Null, found |-> "unopened", status |-> Null]]
  /\ bSpawns = {}

\* ------------------------------------------------ the downloads directory
\* "primary" is process.env.DOWNLOADS_DIR || ./downloads, "tmpdir" os.tmpdir(),
\* "tmpdir/avshorts-downloads" the fallback of server.js
Dirs == {"primary", "tmpdir", "tmpdir/avshorts-downloads"}

\* the directories around them: "app" is __dirname, which holds the default
\* downloads directory and the server's own files; "root" holds the rest
Tree == Dirs \cup {"app", "root"}

Parent ==
  [d \in Tree |-> CASE d = "primary" -> "app"
                    [] d = "tmpdir/avshorts-downloads" -> "tmpdir"
                    [] OTHER -> "root"]

\* a file of the server in __dirname
AppFile == "server.js"

\* `${title}-${Date.now()}.mp4`: the names of saved videos
FileNames == {"v1.mp4", "v2.mp4"}

\* `.perm_test_${Date.now()}`
Marker == ".perm_test"

\* what the file system does when a directory is probed: every call succeeds,
\* or the named one is the first to fail
ProbeOutcomes == {"ok", "mkdir", "write", "unlink"}

\* DOWNLOADS_DIR after the start-up code of file s probed directory dir:
\* ensureDownloadsDir catches a failure of mkdir, writeFile or unlink; the
\* IIFE of server.js only calls mkdir
ResolvedDir(s, dir, o) ==
  IF s = "part_001"
  THEN IF o = "ok" THEN dir ELSE "tmpdir"
  ELSE IF o = "mkdir" THEN "tmpdir/avshorts-downloads" ELSE dir

\* the files after the probe: a marker that could not be unlinked stays
ProbedFiles(s, files, dir, o) ==
  IF s = "part_001" /\ o = "unlink" THEN [files EXCEPT ![dir] = @ \cup {Marker}] ELSE files

\* the module body up to app.listen: express.static is mounted on
\* DOWNLOADS_DIR as the module body reads it, the directory is probed
StoreStart(o) ==
  /\ gOp.op = "none"
  /\ gStatic' = gDir
  /\ gDir' = ResolvedDir(src, gDir, o)
  /\ gFiles' = ProbedFiles(src, gFiles, gDir, o)
  /\ gOp' = [op |-> "start", o |-> o, from |-> gDir, listed |-> {}]
  /\ UNCHANGED <<yVars, src, ytdlLoaded, viVars, dVars, sVars, tVars, bVars, gSaved>>

\* POST /api/download-to-server, as far as the directory goes: part_001 awaits
\* ensureDownloadsDir() first; the file is written to
\* path.join(DOWNLOADS_DIR, filename); the writer finishes (ok) or fails
StoreSave(f, o, ok) ==
  LET probes == src = "part_001"
      dir == IF probes THEN ResolvedDir(src, gDir, o) ELSE gDir
      files == IF probes THEN ProbedFiles(src, gFiles, gDir, o) ELSE gFiles
  IN /\ gOp.op # "none"
     /\ \A d \in Dirs : f \notin gFiles[d]
     /\ gDir' = dir
     /\ gFiles' = IF ok \/ ~WriterErrorUnlinks(src)
                  THEN [files EXCEPT ![dir] = @ \cup {f}]
                  ELSE files
     /\ gSaved' = IF ok THEN gSaved \cup {f} ELSE gSaved
     /\ gOp' = [op |-> "save", o |-> IF probes THEN o ELSE "none", from |-> gDir,
                listed |-> {}]
     /\ UNCHANGED <<yVars, src, ytdlLoaded, viVars, dVars, sVars, tVars, bVars, gStatic>>

\* GET /api/downloads: part_001 awaits ensureDownloadsDir() first; then
\* fs.readdir(DOWNLOADS_DIR)
StoreList(o) ==
  LET probes == src = "part_001"
      dir == IF probes THEN ResolvedDir(src, gDir, o) ELSE gDir
      files == IF probes THEN ProbedFiles(src, gFiles, gDir, o) ELSE gFiles
  IN /\ gOp.op # "none"
     /\ gDir' = dir
     /\ gFiles' = files
     /\ gOp' = [op |-> "list", o |-> IF probes THEN o ELSE "none", from |-> gDir,
                listed |-> files[dir]]
     /\ UNCHANGED <<yVars, src, ytdlLoaded, viVars, dVars, sVars, tVars, bVars, gStatic, gSaved>>

\* the :filename segment of a DELETE request as it stands in the URL: one path
\* segment, in which "%2F" is an encoded slash
RawParams == {<<"v1.mp4">>, <<"v2.mp4">>, <<"..", "%2F", AppFile>>}

\* req.params.filename is the segment after decodeURIComponent; path.join
\* splits it at the slashes
Segments(raw) == SelectSeq(raw, LAMBDA x : x # "%2F")

\* path.join(dir, filename): ".." steps to the parent directory; the result
\* as the directory and the name in it
RECURSIVE PathJoin(_, _)
PathJoin(dir, segs) ==
  IF Len(segs) = 1 THEN [dir |-> dir, base |-> segs[1]]
  ELSE IF Head(segs) = ".." THEN PathJoin(Parent[dir], Tail(segs))
  ELSE [dir |-> "absent", base |-> segs[Len(segs)]]

\* DELETE /api/downloads/:filename: fs.unlink(path.join(DOWNLOADS_DIR, filename)),
\* which fails when there is no such file
StoreDelete(raw) ==
  LET t == PathJoin(gDir, Segments(raw))
      hit == t.dir \in Tree /\ t.base \in gFiles[t.dir]
  IN
  /\ gOp.op # "none"
  /\ gFiles' = IF hit THEN [gFiles EXCEPT ![t.dir] = @ \ {t.base}] ELSE gFiles
  /\ gSaved' = IF hit /\ t.dir = gDir THEN gSaved \ {t.base} ELSE gSaved
  /\ gOp' = [op |-> "delete", o |-> "none", from |-> gDir, listed |-> {}]
  /\ UNCHANGED <<yVars, src, ytdlLoaded, viVars, dVars, sVars, tVars, bVars, gDir, gStatic>>

\* GET /downloads/:filename finds the file
Served(f) == f \in gFiles[gStatic]

GInit ==
  /\ gDir = "primary"
  /\ gStatic = Null
  /\ gFiles = [d \in Tree |-> IF d = "app" THEN {AppFile} ELSE {}]
  /\ gSaved = {}
  /\ gOp = [op |-> "none", o |-> "none", from |-> "primary", listed |-> {}]

SInit ==
  /\ sPc = "idle"
  /\ sUrl = UrlMissing
  /\ sDir = "own"
  /\ sRes = NoSaveResponse
  /\ sTried = <<>>
  /\ sPlay = "none"
  /\ sWriter = "none"
  /\ sFile = "none"
  /\ sWritten = 0

\* ------------------------------------ concurrent calls of ensureDownloadsDir
\* the calls in flight at once: the handlers of /api/download-to-server,
\* /api/downloads and /api/contact each await ensureDownloadsDir()
MaxProbes == 2
Probes == 1..MaxProbes

\* the values Date.now() takes while the calls run
MaxClock == 1

NoProbe == [pc |-> "idle", dir |-> Null, stamp |-> 0]

\* `.perm_test_${Date.now()}` under DOWNLOADS_DIR, as <<directory, timestamp>>
TestFile(dir, now) == <<dir, now>>

\* a handler calls ensureDownloadsDir(): fs.mkdir(DOWNLOADS_DIR) is started
ProbeCall(c) ==
  /\ pCall[c].pc \in {"idle", "done"}
  /\ pCall' = [pCall EXCEPT ![c] = [pc |-> "mkdir", dir |-> Null, stamp |-> 0]]
  /\ UNCHANGED <<src, ytdlLoaded, viVars, dVars, sVars, tVars, bVars, gVars, rVars,
                 pMarks, pDir, pNow>>

\* mkdir resolved: testFile is built from DOWNLOADS_DIR and Date.now() as
\* they are now, fs.writeFile(testFile) is started
ProbeMkdirDone(c) ==
  /\ pCall[c].pc = "mkdir"
  /\ pCall' = [pCall EXCEPT ![c] = [pc |-> "write", dir |-> pDir, stamp |-> pNow]]
  /\ UNCHANGED <<src, ytdlLoaded, viVars, dVars, sVars, tVars, bVars, gVars, rVars,
                 pMarks, pDir, pNow>>

\* writeFile resolved (it creates or truncates the file), fs.unlink(testFile)
\* is started
ProbeWriteDone(c) ==
  /\ pCall[c].pc = "write"
  /\ pMarks' = pMarks \cup {TestFile(pCall[c].dir, pCall[c].stamp)}
  /\ pCall' = [pCall EXCEPT ![c].pc = "unlink"]
  /\ UNCHANGED <<src, ytdlLoaded, viVars, dVars, sVars, tVars, bVars, gVars, rVars,
                 pDir, pNow>>

\* unlink settled: the file is removed and the call returns DOWNLOADS_DIR; or
\* the file is not there (ENOENT), the catch block sets DOWNLOADS_DIR to
\* os.tmpdir() and awaits mkdir of it
ProbeUnlinkDone(c) ==
  LET f == TestFile(pCall[c].dir, pCall[c].stamp)
  IN /\ pCall[c].pc = "unlink"
     /\ IF f \in pMarks
        THEN /\ pMarks' = pMarks \ {f}
             /\ pCall' = [pCall EXCEPT ![c].pc = "done"]
             /\ pDir' = pDir
        ELSE /\ pMarks' = pMarks
             /\ pCall' = [pCall EXCEPT ![c].pc = "fallback"]
             /\ pDir' = "tmpdir"
     /\ UNCHANGED <<src, ytdlLoaded, viVars, dVars, sVars, tVars, bVars, gVars, rVars,
                    pNow>>

\* the mkdir of the catch block settled; the call returns DOWNLOADS_DIR
ProbeFallbackDone(c) ==
  /\ pCall[c].pc = "fallback"
  /\ pCall' = [pCall EXCEPT ![c].pc = "done"]
  /\ UNCHANGED <<src, ytdlLoaded, viVars, dVars, sVars, tVars, bVars, gVars, rVars,
                 pMarks, pDir, pNow>>

\* a millisecond passes
ClockTick ==
  /\ pNow < MaxClock
  /\ pNow' = pNow + 1
  /\ UNCHANGED <<src, ytdlLoaded, viVars, dVars, sVars, tVars, bVars, gVars, rVars,
                 pCall, pMarks, pDir>>

PInit ==
  /\ pCall = [c \in Probes |-> NoProbe]
  /\ pMarks = {}
  /\ pDir = "primary"
  /\ pNow = 0

\* ------------------------------------------------ runYtdlpArgs (yt-dlp-run.js)
\* the chunks the child writes to stdout
OutChunks == {"a", "b"}

\* the code 'close' carries: 0, another number, or null after a signal
CloseCodes == {"0", "1", "null"}

NoProc == [errorDue |-> FALSE, code |-> "none"]

\* runYtdlpArgs(args): the executor spawns the child and attaches listeners
\* for stdout 'data', stderr 'data' and 'close'; a throw of spawn() inside the
\* executor rejects the promise
RunCall(o) ==
  /\ rPc = "idle"
  /\ rPc' = CASE o = "runs" -> "running"
              [] o = "emits-error" -> "failed"
              [] OTHER -> "threw"
  /\ rProc' = [errorDue |-> o = "emits-error", code |-> "none"]
  /\ rPromise' = IF o = "throws"
                 THEN [state |-> "rejected", value |-> <<>>]
                 ELSE [state |-> "pending", value |-> <<>>]
  /\ UNCHANGED <<src, ytdlLoaded, viVars, dVars, sVars, tVars, bVars, gVars, pVars,
                 rOut, rErr>>

\* proc.stdout.on('data', d => out += d.toString())
RunStdoutData(d) ==
  /\ rPc \in {"running", "exited"}
  /\ Len(rOut) < MaxChunks
  /\ rOut' = Append(rOut, d)
  /\ UNCHANGED <<src, ytdlLoaded, viVars, dVars, sVars, tVars, bVars, gVars, pVars,
                 rPc, rErr, rProc, rPromise>>

\* proc.stderr.on('data', d => err += d.toString())
RunStderrData ==
  /\ rPc \in {"running", "exited"}
  /\ rErr < MaxChunks
  /\ rErr' = rErr + 1
  /\ UNCHANGED <<src, ytdlLoaded, viVars, dVars, sVars, tVars, bVars, gVars, pVars,
                 rPc, rOut, rProc, rPromise>>

\* the child terminates; nothing listens to 'exit'
RunExit(code) ==
  /\ rPc = "running"
  /\ rPc' = "exited"
  /\ rProc' = [rProc EXCEPT !.code = code]
  /\ UNCHANGED <<src, ytdlLoaded, viVars, dVars, sVars, tVars, bVars, gVars, pVars,
                 rOut, rErr, rPromise>>

\* proc.on('close', code => ...): resolve(out) when code === 0, else reject
RunClose ==
  /\ rPc = "exited"
  /\ rPc' = "closed"
  /\ rPromise' = IF rProc.code = "0"
                 THEN [state |-> "resolved", value |-> rOut]
                 ELSE [state |-> "rejected", value |-> <<>>]
  /\ UNCHANGED <<src, ytdlLoaded, viVars, dVars, sVars, tVars, bVars, gVars, pVars,
                 rOut, rErr, rProc>>

\* the failed spawn emits 'error' on the next tick: runYtdlpArgs attached no
\* 'error' listener, so the emit throws out of the child's exit handler
\* before it gets to emit 'close', and the process goes down on the uncaught
\* exception
RunErrorEvent ==
  /\ rPc = "failed"
  /\ rProc.errorDue
  /\ rPc' = "crashed"
  /\ rProc' = [rProc EXCEPT !.errorDue = FALSE]
  /\ UNCHANGED <<src, ytdlLoaded, viVars, dVars, sVars, tVars, bVars, gVars, pVars,
                 rOut, rErr, rPromise>>

RInit ==
  /\ rPc = "idle"
  /\ rOut = <<>>
  /\ rErr = 0
  /\ rProc = NoProc
  /\ rPromise = [state |-> "none", value |-> <<>>]

Init ==
  /\ src \in Sources
  /\ ytdlLoaded \in BOOLEAN
  /\ ViInit
  /\ DInit
  /\ SInit
  /\ TInit
  /\ BInit
  /\ GInit
  /\ PInit
  /\ RInit

InfoNext ==
  \/ \E url \in UrlInputs : VideoInfoRequest(url)
  \/ \E r \in YtdlResults : YtdlCoreDone(r)
  \/ \E r \in PlayResults : PlayDlDone(r)
  \/ \E r \in YtDlpResults : YtDlpDone(r)

StreamNext ==
  \/ \E ep \in Endpoints, url \in UrlInputs : StreamRequest(ep, url)
  \/ \E o \in SpawnOutcomes : EnterStdout(o)
  \/ EnterPlay
  \/ \E o \in PlayInfoOutcomes : PlayInfoDone(o)
  \/ \E ok \in BOOLEAN : PlayStreamDone(ok)
  \/ \E o \in SpawnOutcomes : EnterFile(o)
  \/ \E o \in FileOutcomes : FileChildDone(o)
  \/ ChildErrorEvent
  \/ ChildStdoutData
  \/ \E code \in {0, 1} : ChildExit(code)
  \/ ChildStdoutEnd
  \/ PlayData
  \/ PlayEnd
  \/ PlayError
  \/ ReadData
  \/ ReadEnd
  \/ ReadError
  \/ ReadClose
  \/ UnlinkTimer
  \/ \E fits \in BOOLEAN : ClientClose(fits)

\* one /api/video-info request
SpecInfo == Init /\ [][InfoNext]_vars

\* one /api/download or /api/download-audio request
SpecStream == Init /\ [][StreamNext]_vars

\* one request to any of the three endpoints
Spec == Init /\ [][InfoNext \/ StreamNext]_vars

SaveNext ==
  \/ \E url \in UrlInputs : SaveRequest(url)
  \/ \E dir \in {"own", "tmp"} : SaveDirDone(dir)
  \/ \E o \in PlayInfoOutcomes : SaveInfoDone(o)
  \/ \E ok \in BOOLEAN : SaveStreamDone(ok)
  \/ WriterOpen
  \/ SaveData
  \/ SaveSourceEnd
  \/ SaveSourceError
  \/ WriterFinish
  \/ WriterError

\* one /api/download-to-server request
SpecSave == Init /\ [][SaveNext]_vars

TmpNext ==
  \/ \E r \in Requests : TmpRequest(r)
  \/ \E r \in Requests : TmpChildExit0(r)
  \/ \E r \in Requests : TmpChildFails(r)
  \/ \E r \in Requests : TmpResume(r)
  \/ \E r \in Requests : TmpStreamError(r)
  \/ \E r \in Requests : TmpStreamClose(r)
  \/ \E r \in Requests : TmpUnlink(r)

\* requests whose handlers are in the temp-file block at the same time
SpecTmp == Init /\ [][TmpNext]_vars

BootNext ==
  \/ \E env \in {Null, "cfg"}, exec \in SUBSET Paths, bin \in {"absent", "complete"} :
       ModuleLoad(env, exec, bin)
  \/ DirEnsured
  \/ \E c \in Calls, ok \in BOOLEAN : EnsureMkdir(c, ok)
  \/ \E c \in Calls, o \in ResponseOutcomes : EnsureResponse(c, o)
  \/ \E c \in Calls : EnsureFinish(c)
  \/ \E c \in Calls, ok \in BOOLEAN : EnsureChmod(c, ok)
  \/ BootListen
  \/ \E ep \in SpawningHandlers : HandlerSpawn(ep)

\* one start of the part_001 process
SpecBoot == Init /\ [][BootNext]_vars

StoreNext ==
  \/ \E o \in ProbeOutcomes : StoreStart(o)
  \/ \E f \in FileNames, o \in ProbeOutcomes, ok \in BOOLEAN : StoreSave(f, o, ok)
  \/ \E o \in ProbeOutcomes : StoreList(o)
  \/ \E raw \in RawParams : StoreDelete(raw)

\* the downloads directory from process start on, under saves, listings and
\* deletes
SpecStore == Init /\ [][StoreNext]_vars

ProbeNext ==
  \/ \E c \in Probes : ProbeCall(c)
  \/ \E c \in Probes : ProbeMkdirDone(c)
  \/ \E c \in Probes : ProbeWriteDone(c)
  \/ \E c \in Probes : ProbeUnlinkDone(c)
  \/ \E c \in Probes : ProbeFallbackDone(c)
  \/ ClockTick

\* handlers of part_001 awaiting ensureDownloadsDir() at the same time, on a
\* file system where every call on an existing path succeeds
SpecProbe == Init /\ [][ProbeNext]_vars

RunNext ==
  \/ \E o \in SpawnOutcomes : RunCall(o)
  \/ \E d \in OutChunks : RunStdoutData(d)
  \/ RunStderrData
  \/ \E code \in CloseCodes : RunExit(code)
  \/ RunClose
  \/ RunErrorEvent

\* one call of runYtdlpArgs
SpecRun == Init /\ [][RunNext]_vars

\* ------------------------------------------- properties of /api/video-info
\* the mapped format list a backend call produced (empty when it failed)
Produced(b) ==
  LET r == viRaw[b]
  IN CASE b = "ytdl-core" -> IF r.kind = "info" THEN MapYtdlFormats(r.f) ELSE <<>>
       [] b = "play-dl" -> IF r.kind = "info" THEN MapPlayFormats(r.f) ELSE <<>>
       [] b = "yt-dlp" ->
            IF r.kind = "exit" /\ r.code = 0 /\ r.out = "object" /\ r.fk = "array"
            THEN MapYtDlpFormats(r.f) ELSE <<>>

InfoAnswered == viPc = "done" /\ isValidYouTubeUrl(src, viUrl)

\* C6: for every url accepted by isValidYouTubeUrl and every combination of
\* backend outcomes, /api/video-info answers 200 with a non-null title
\* ("Unknown title" when no backend supplied one); never an error status.
C6_InfoLenient ==
  InfoAnswered =>
    /\ viRes.status = 200
    /\ viRes.meta.title # Null
    /\ (\A b \in Backends : viRaw[b].kind \in {"none", "throw"})
         => viRes.meta.title = "Unknown title"

\* C6 witness: every backend that was called threw, and the answer is 200
\* with the fallback title
C6_Witness ==
  /\ InfoAnswered
  /\ src = "server.js"
  /\ viTried = <<"ytdl-core", "play-dl", "yt-dlp">>
  /\ \A b \in Backends : viRaw[b].kind = "throw"
  /\ viRes.status = 200
  /\ viRes.meta.title = "Unknown title"

\* position of a backend in the order each file is written in
Rank(s, b) ==
  IF s = "server.js"
  THEN CASE b = "ytdl-core" -> 1 [] b = "play-dl" -> 2 [] b = "yt-dlp" -> 3
  ELSE CASE b = "yt-dlp" -> 1 [] b = "ytdl-core" -> 2 [] b = "play-dl" -> 3

C8_ScalarsKept ==
  [][\A f \in MetaFields : viMeta[f] \notin {Null, ""} => viMeta'[f] = viMeta[f]]_vars

\* the formats of the first backend, in the file's order, that produced any
FirstProduced ==
  LET order == IF src = "server.js" THEN <<"ytdl-core", "play-dl", "yt-dlp">>
                                    ELSE <<"yt-dlp", "ytdl-core">>
      hits == { i \in 1..Len(order) : Produced(order[i]) # <<>> }
  IN IF hits = {} THEN <<>>
     ELSE Produced(order[CHOOSE i \in hits : \A j \in hits : i <= j])

\* C9: the formats list returned is the mapped list of exactly one backend,
\* the first in priority order that produced a non-empty list, and it is
\* empty only if no backend produced a format.
C9_FormatsOfOneBackend ==
  (InfoAnswered /\ viRes.status = 200) =>
    /\ viRes.formats = FirstProduced
    /\ viRes.formats = <<>> => \A b \in Backends : Produced(b) = <<>>

\* C9 witness: ytdl-core returned no format, play-dl returned two, and the
\* answer carries play-dl's two
C9_Witness ==
  /\ InfoAnswered
  /\ src = "server.js"
  /\ viRaw["ytdl-core"].kind = "info"
  /\ viRaw["ytdl-core"].d.title = "T-ytdl"
  /\ Len(Produced("play-dl")) = MaxFormats
  /\ viRes.formats = Produced("play-dl")

\* the mapping C10 states for one entry of yt-dlp's formats array
C10_Mapped(f) ==
  [itag |-> f.format_id,
   container |-> f.ext,
   hasAudio |-> (f.acodec # Null /\ f.acodec # "none"),
   hasVideo |-> (f.vcodec # Null /\ f.vcodec # "none")]

C10_Shown(m) ==
  [itag |-> m.itag, container |-> m.container,
   hasAudio |-> m.hasAudio, hasVideo |-> m.hasVideo]

\* an entry shaped like the ones C10 speaks of: it carries format_id and ext
C10_Shaped(f) == ~Falsy(f.format_id) /\ ~Falsy(f.ext)

\* C10 as claimed: when the earlier backends gave no format and no title and
\* yt-dlp exits 0 with JSON carrying a title and a formats array, the answer
\* has that title and every format mapped to identifier = format_id,
\* container = ext, hasAudio/hasVideo = codec present and not 'none'.
\* (Stated for entries that carry format_id and ext.)
C10_YtDlpPayloadReturned ==
  LET r == viRaw["yt-dlp"]
      earlier == { b \in Backends : Rank(src, b) < Rank(src, "yt-dlp") }
  IN ( /\ InfoAnswered
       /\ r.kind = "exit" /\ r.code = 0 /\ r.out = "object" /\ r.fk = "array"
       /\ ~Falsy(r.d.title)
       /\ \A b \in earlier :
            /\ Produced(b) = <<>>
            /\ viRaw[b].kind \in {"none", "throw"} \/ Falsy(viRaw[b].d.title) )
     => /\ viRes.meta.title = r.d.title
        /\ viRes.formats = <<>> <=> r.f = <<>>
        /\ Len(viRes.formats) = Len(r.f)
        /\ \A i \in 1..Len(r.f) :
             C10_Shaped(r.f[i]) => C10_Shown(viRes.formats[i]) = C10_Mapped(r.f[i])

\* ------------------------------------ properties of the stream handlers
StreamAsked == dPc # "idle"

\* the url of the stream request matches the watch/shorts pattern
StreamUrlValid == isValidYouTubeUrl(src, dUrl)

\* C1: once a backend's source has been piped into the response, no other
\* backend is started for the request and no second source is piped: at most
\* one source is ever attached, and it belongs to the last attempt started,
\* whatever errors or exits follow.
C1_SingleCommit ==
  /\ Len(dPipedAt) <= 1
  /\ dPipedAt # <<>> => /\ dPipedAt[1] = Len(dStarted)
                        /\ dPc = "returned"

\* C1 witness: the play-dl stream was piped as second attempt, sent bytes and
\* then failed; nothing was started after it
C1_Witness ==
  /\ dPipedAt = <<2>>
  /\ dStarted = <<"stdout", "play">>
  /\ dPlay = "errored"
  /\ dRes.bytes > 0

\* C2 as claimed: an attempt that fails before any byte was sent is followed
\* by the next backend in priority order; the request is not ended with
\* backends left untried.
C2_FailureFallsThrough ==
  \A i \in 1..Len(dOutcome) :
    (StreamUrlValid /\ dOutcome[i] = "failed" /\ i < Len(Tiers) /\ dRes.ended)
      => Len(dStarted) > i

\* C3 as claimed: a stream request with a valid url whose every attempt failed
\* before any byte was sent is answered 500 with a JSON error object, never
\* with a success status and an empty body.
C3_AllFailedAnswers500 ==
  ( /\ StreamAsked /\ StreamUrlValid
    /\ dRes.ended
    /\ dRes.bytes = 0
    /\ dStarted # <<>>
    /\ \A i \in 1..Len(dOutcome) : dOutcome[i] = "failed" )
  => /\ dRes.status = 500
     /\ dRes.body = "json"
     /\ dRes.error # ""

\* C4: after headers or bytes of a stream response were sent, no listener
\* and no catch block writes a JSON error body or changes the status.
C4_NoErrorBodyAfterCommit ==
  [][dRes.headersSent =>
       /\ dRes'.status = dRes.status
       /\ dRes'.error = dRes.error
       /\ dRes'.body = "json" => dRes.body = "json"
       /\ ~dRes'.lateJson]_vars

\* C4 witness: bytes were sent with status 200, then the committed source
\* failed, and the response is still the 200 byte stream
C4_Witness ==
  /\ dRes.headersSent
  /\ dRes.bytes > 0
  /\ \E i \in 1..Len(dOutcome) : dOutcome[i] = "broken"
  /\ dPlay = "errored"
  /\ dRes.status = 200
  /\ dRes.body = "bytes"
  /\ ~dRes.lateJson

\* C5 as claimed: on /api/video-info, /api/download and /api/download-audio a
\* missing url or one that does not match the watch/shorts pattern is
\* answered with status 400 at once and no backend is invoked for it.
C5_InvalidUrlRejected ==
  /\ (viPc # "idle" /\ ~isValidYouTubeUrl(src, viUrl))
       => viRes.status = 400 /\ viTried = <<>>
  /\ (StreamAsked /\ ~StreamUrlValid)
       => /\ dStarted = <<>>
          /\ dPc = "returned" => dRes.status = 400

\* attempt i of the request and every attempt before it
Earlier(i) == 1..(i - 1)

\* C11 as claimed: /api/download starts its backends in the order yt-dlp to
\* stdout, then the play-dl stream, then yt-dlp to a temp file; the temp file
\* is tried only after both streaming strategies have failed.
C11_StdoutPlayFile ==
  dEp = "download" =>
    \A i \in 1..Len(dStarted) :
      /\ dStarted[i] = "play" => \E j \in Earlier(i) : dStarted[j] = "stdout"
      /\ dStarted[i] = "file" =>
           /\ \E j \in Earlier(i) : dStarted[j] = "stdout" /\ dOutcome[j] = "failed"
           /\ \E j \in Earlier(i) : dStarted[j] = "play" /\ dOutcome[j] = "failed"

\* C12 as claimed: Content-Disposition and Content-Type are set once per
\* stream request, by the attempt that commits: never on behalf of an attempt
\* that then fails, and never over the headers of an earlier attempt.
C12_HeadersSetOnce ==
  /\ dRes.sets <= 1
  /\ dRes.cd # "" =>
       \E i \in 1..Len(dStarted) : dStarted[i] = dRes.cd /\ dOutcome[i] # "failed"

\* C13 as claimed: the 500 answer sent when every backend failed carries no
\* Content-Disposition attachment header left by a failed attempt.
C13_NoStreamHeadersOn500 ==
  (dRes.status = 500 /\ dRes.body = "json") => dRes.cd = ""

\* an attempt that is running: awaited by the handler, or feeding the response
InProgress(i) ==
  \/ dOutcome[i] = "pending"
  \/ /\ dOutcome[i] = "piped"
     /\ \/ dStarted[i] = "stdout" /\ dChild.state = "running"
        \/ dStarted[i] = "play" /\ dPlay = "open"
        \/ dStarted[i] = "file" /\ dRead = "open"

\* C15: within one stream request at most one attempt is in progress at any
\* time, and an attempt is started only after every earlier one has failed.
C15_Sequential ==
  /\ \A i, j \in 1..Len(dStarted) : (InProgress(i) /\ InProgress(j)) => i = j
  /\ \A i \in 1..Len(dStarted) : \A j \in Earlier(i) : dOutcome[j] = "failed"

\* C15 witness: in backend/server.js the audio request's play-dl attempt
\* failed and only then the yt-dlp stdout child was started; it is running
\* and has sent bytes
C15_Witness ==
  /\ src = "server.js"
  /\ dEp = "audio"
  /\ dStarted = <<"play", "stdout">>
  /\ dOutcome = <<"failed", "piped">>
  /\ dChild.state = "running"
  /\ dRes.bytes > 0

\* C19 as claimed: /api/download-audio starts its backends in the order
\* /api/download does, each only after the previous one failed.
C19_AudioSameOrder ==
  dEp = "audio" =>
    \A i \in 1..Len(dStarted) :
      /\ i <= Len(StreamOrder(src, "download"))
      /\ dStarted[i] = StreamOrder(src, "download")[i]

\* C27 as claimed: after the client has disconnected from a stream response,
\* the source feeding it is terminated: when nothing more can happen, no
\* yt-dlp child is left running and no library stream is left open.
C27_SourceClosedOnDisconnect ==
  (dRes.closed /\ ~ENABLED StreamNext) =>
    (dChild.state \notin {"running", "blocked"} /\ dPlay # "paused")

C32_ResponseCompleted ==
  ( /\ StreamAsked
    /\ \E i \in 1..Len(dOutcome) : dOutcome[i] = "broken"
    /\ ~dRes.closed
    /\ ~crashed
    /\ ~ENABLED StreamNext )
  => dRes.ended

\* ----------------------------- properties of /api/download-to-server
\* C16: the success response is sent only after the writer emitted 'finish':
\* never while bytes are still being written, never after a write error.
C16_SuccessAfterFinish ==
  sRes.body = "success" => /\ sWriter = "finished"
                           /\ sPlay = "ended"
                           /\ sFile = "complete"

\* C16 witness: chunks were written, the writer finished, success was sent
C16_Witness ==
  /\ sRes.body = "success"
  /\ sWriter = "finished"
  /\ sWritten = MaxChunks

\* C17 as claimed: after a writer error the partially written file is gone
\* from the downloads directory and the caller got a 500.
C17_WriteErrorCleansUp ==
  sWriter = "errored" => /\ sFile = "none"
                         /\ sRes.status = 500

\* the handler gave up on getting a stream for a watch/shorts url
SaveGaveUp ==
  /\ isValidYouTubeUrl(src, sUrl)
  /\ sPc = "done"
  /\ sRes.status = 500
  /\ sWriter = "none"

\* C18 as claimed: /api/download-to-server selects backends as /api/download
\* does: it reports failure only once every backend of that order has been
\* tried.
C18_SameSelectionPolicy ==
  SaveGaveUp => sTried = StreamOrder(src, "download")

\* ------------------------------------- properties of the temp-file fallback
\* every request has run to its end: failed, or its delayed unlink has fired
TmpQuiescent == \A r \in Requests : tReq[r].pc \in {"done", "failed"}

\* C14 as claimed: every temp file written by a child that exited 0 is
\* unlinked once the stream serving it has finished or failed, also with
\* several file fallbacks running at once: when all of them are through,
\* none of their files is left in the temp directory.
C14_TmpFilesRemoved == TmpQuiescent => tDir = <<>>

\* C29 as claimed: a temp file is unlinked only when the read stream over it
\* has closed and the delay has run: no file leaves the temp directory while
\* a request that picked it still has its stream open.
C29_UnlinkAfterClose ==
  [][\A f \in Requests :
       (InDir(f) /\ ~(\E i \in 1..Len(tDir') : tDir'[i] = f)) =>
         \A r \in Requests : tReq[r].pick = f => tReq[r].pc \in {"closed", "done"}]_vars

\* C30: a file fallback whose child exited non-zero fails without picking,
\* streaming or unlinking a file, whatever files are in the temp directory.
C30_FailedChildTouchesNoFile ==
  [][\A r \in Requests :
       tReq'[r].exit = "nonzero" =>
         /\ tReq'[r].pc = "failed"
         /\ tReq'[r].pick = NoFile
         /\ tReq[r].exit # "nonzero" => tDir' = tDir]_vars

\* C31 as claimed: with file fallbacks running at once, each request streams
\* the file its own child wrote, and the delayed unlink of one request never
\* removes the file another request is streaming.
C31_OwnFileStreamed ==
  [][/\ \A r \in Requests : tReq'[r].pc = "serving" => tReq'[r].pick = tReq'[r].own
     /\ \A q \in Requests :
          (tReq[q].pc = "closed" /\ tReq'[q].pc = "done") =>
            \A r \in Requests \ {q} :
              tReq[r].pc = "serving" => tReq[r].pick # tReq[q].pick]_vars

\* a child failed while the file of another request lay in the temp directory
C30_Witness ==
  \E r, q \in Requests : /\ tReq[r].exit = "nonzero"
                          /\ tReq[r].pc = "failed"
                          /\ tReq[q].pc = "serving"
                          /\ InDir(tReq[q].pick)

\* ------------------------------------------- properties of process start
\* C20 as claimed: ensureYtDlp runs once per process, so at most one download
\* writes the local bin copy and no two resolutions work on that file at the
\* same time.
C20_OneResolution ==
  /\ Cardinality({ c \in Calls : bPc[c] \in {"get", "piping", "chmod"} }) <= 1
  /\ Cardinality(bWriters) <= 1

\* C21 as claimed: no handler spawns yt-dlp before the startup resolution of
\* the executable (the ytDlpReady promise) has settled.
C21_SpawnAfterReady == \A s \in bSpawns : s.ready

\* C22: a call of ensureYtDlp that finds one of its candidates executable
\* returns the first such in the order YTDLP_PATH, /usr/local/bin/yt-dlp, the
\* local bin copy, without downloading; it goes on to the download only when
\* none of them is executable.
C22_SearchOrder ==
  [][\A c \in Calls :
       (bPc[c] = "none" /\ bPc'[c] # "none") =>
         LET order == <<bHist'[c].env, "usr", "local">>
             ex(i) == order[i] # Null /\ order[i] \in bExec'
         IN IF \E i \in 1..3 : ex(i)
            THEN /\ bPc'[c] = "done"
                 /\ \E i \in 1..3 : /\ ex(i)
                                     /\ bRet'[c] = order[i]
                                     /\ \A j \in 1..(i - 1) : ~ex(j)
            ELSE /\ bPc'[c] = "mkdir"
                 /\ bRet'[c] = Null]_vars

\* a call that skipped a configured path that is not executable and returned
\* /usr/local/bin/yt-dlp although the local copy is executable too
C22_Witness ==
  \E c \in Calls : /\ bRet[c] = "usr"
                    /\ bHist[c].env = "cfg"
                    /\ "cfg" \notin bExec
                    /\ "local" \in bExec
                    /\ bBoot = "listening"

\* C28 as claimed: a call whose download was answered with a status other
\* than 200 returns null, leaves YTDLP_PATH as it was, and has written
\* nothing: the local bin copy is in the state the call found it in (stated
\* for a call that is the only one to have opened the file).
C28_NothingWrittenOnBadStatus ==
  \A c \in Calls :
    bHist[c].status = "non-200" =>
      /\ bRet[c] = Null
      /\ (\A d \in Calls : bRet[d] = Null) => bEnv = bHist[c].env
      /\ (\A d \in Calls \ {c} : bHist[d].found = "unopened") => bBin = bHist[c].found

\* ------------------------------------ properties of the downloads directory
\* C23 as claimed: the start-up code keeps the directory it probed only if
\* mkdir, the write of the marker and its unlink all succeeded; a failure of
\* any of the three moves DOWNLOADS_DIR to the temp directory (a directory
\* below os.tmpdir() is accepted as such).
C23_ProbeDecidesDir ==
  gOp.o # "none" => IF gOp.o = "ok" THEN gDir = gOp.from ELSE gDir # "primary"

\* C24 as claimed: once DOWNLOADS_DIR is a fallback directory, every file
\* reported as saved (and not deleted since) is in the directory the listing
\* reads and is served at /downloads/<filename>.
C24_OneDirectory ==
  gDir # "primary" => \A f \in gSaved : f \in gFiles[gDir] /\ Served(f)

\* C25 as claimed: once the server is serving, no request handler changes
\* DOWNLOADS_DIR or YTDLP_PATH.
C25_WrittenAtStartupOnly ==
  [][gOp.op # "none" => (gDir' = gDir /\ bEnv' = bEnv)]_vars

\* C26 as claimed: a listing that directly follows a listing, no save or
\* delete between them, returns the same set of entries.
C26_ListingIdempotent ==
  [][(gOp.op = "list" /\ gOp'.op = "list") => gOp'.listed = gOp.listed]_vars

\* ------------------------------------------------ claims C34 to C37
\* C34: with a writable primary directory, concurrent ensureDownloadsDir
\* calls never switch DOWNLOADS_DIR to the fallback.
C34_PrimaryKept == pDir = "primary"

\* C35: a DELETE /api/downloads/:filename removes at most a file that lies
\* directly in the resolved downloads directory: the files of every other
\* directory are the same after the request, whatever the parameter.
C35_DeleteStaysInside ==
  [][gOp'.op = "delete" => \A d \in Tree \ {gDir} : gFiles'[d] = gFiles[d]]_vars

\* C36: a call of ensureYtDlp that returned a path returned an executable
\* one, and YTDLP_PATH then names an executable; when no chmod mechanism
\* succeeded the call returns null.
C36_ReturnedPathExecutable ==
  \A c \in Calls :
    (bPc[c] = "done" /\ bRet[c] # Null) => bRet[c] \in bExec

\* C37: the promise of runYtdlpArgs always settles: once nothing more can
\* happen it is not pending; it is resolved with out exactly when the child
\* closed with code 0, and rejected after every other close or spawn failure.
C37_PromiseSettles ==
  /\ rPromise.state = "pending" => ENABLED RunNext
  /\ rPromise.state = "resolved" => (rProc.code = "0" /\ rPromise.value = rOut)
  /\ (rPc = "closed" /\ rProc.code = "0") => rPromise.state = "resolved"
  /\ (rPc \in {"closed", "threw"} /\ rProc.code # "0") => rPromise.state = "rejected"

====
